---- MODULE Spec2Model ----
(***************************************************************************)
(* Model of lingua_fast: the /v1/words batch handler (src/src/api.rs), the *)
(* per-word retry pipeline attempt_word_inference (src/src/api.rs) and the *)
(* validation-and-repair engine (src/src/validate.rs).                     *)
(*                                                                         *)
(* Eight specifications: Spec (a /v1/words request), WordSpec (a /v1/word  *)
(* request), ValidatorSpec (one call of Validator::validate_and_fix on     *)
(* inputs drawn from families of gateway outputs), EndpointSpec (one word  *)
(* sent to both endpoints against a scripted backend), ExtractSpec (one    *)
(* call of LlamaBackend::extract_json_bytes, src/src/model/llama.rs),      *)
(* SchemaSpec (callers of validate_and_fix and the schema compilations),   *)
(* GatewaySpec (calls of LlamaBackend::infer_json against its semaphore)   *)
(* and LiveSpec (a /v1/words request whose tasks all return, with the      *)
(* fairness of the tokio scheduler).                                       *)
(*                                                                         *)
(* Strings are TLA+ strings; error messages are built with the format      *)
(* strings of the source and searched with Contains, as the code does with *)
(* str::contains.  JSON values are tagged records (Str, Num, Arr, Obj).    *)
(* Vec indices are 1-based here (Rust index idx is idx + 1).               *)
(***************************************************************************)
EXTENDS Integers, Sequences, FiniteSets, TLC

(***************************************************************************)
(* Bounds of the model: the largest number of words of a batch, the        *)
(* largest concurrency limit, and the largest number of pipeline tasks of  *)
(* one batch that end in a join error.                                     *)
(***************************************************************************)
MaxWords == 2
MaxConcurrency == 2
MaxPanics == 1

(***************************************************************************)
(* Program constants.                                                      *)
(***************************************************************************)
MAX_RETRIES == 2

(***************************************************************************)
(* String helpers (Rust str methods).                                      *)
(***************************************************************************)
Contains(s, sub) ==
  \E i \in 1..(Len(s) - Len(sub) + 1) : SubSeq(s, i, i + Len(sub) - 1) = sub

starts_with(s, c) == Len(s) >= 1 /\ SubSeq(s, 1, 1) = c

ends_with(s, c) == Len(s) >= 1 /\ SubSeq(s, Len(s), Len(s)) = c

UpperChars == "ABCDEFGHIJKLMNOPQRSTUVWXYZ"

LowerChars == "abcdefghijklmnopqrstuvwxyz"

LowerChar(c) ==
  IF \E i \in 1..Len(UpperChars) : SubSeq(UpperChars, i, i) = c
  THEN LET i == CHOOSE j \in 1..Len(UpperChars) : SubSeq(UpperChars, j, j) = c
       IN  SubSeq(LowerChars, i, i)
  ELSE c

RECURSIVE to_lowercase(_)
to_lowercase(s) ==
  IF Len(s) = 0 THEN ""
  ELSE LowerChar(SubSeq(s, 1, 1)) \o to_lowercase(SubSeq(s, 2, Len(s)))

RECURSIVE trim_start_matches(_, _)
trim_start_matches(s, c) ==
  IF starts_with(s, c) THEN trim_start_matches(SubSeq(s, 2, Len(s)), c) ELSE s

RECURSIVE trim_end_matches(_, _)
trim_end_matches(s, c) ==
  IF ends_with(s, c) THEN trim_end_matches(SubSeq(s, 1, Len(s) - 1), c) ELSE s

trim_matches(s, c) == trim_end_matches(trim_start_matches(s, c), c)

trim(s) == trim_matches(s, " ")

IdxStr(i) == <<"0", "1", "2", "3", "4", "5", "6", "7", "8", "9">>[i + 1]

(***************************************************************************)
(* serde_json::Value.                                                      *)
(***************************************************************************)
Str(s) == [t |-> "str", s |-> s]
Num(n) == [t |-> "num", n |-> n]
Arr(a) == [t |-> "arr", a |-> a]
Obj(o) == [t |-> "obj", o |-> o]

is_str(v) == v.t = "str"
is_array(v) == v.t = "arr"
is_object(v) == v.t = "obj"

contains_key(o, k) == k \in DOMAIN o

insert(o, k, v) == [x \in (DOMAIN o) \cup {k} |-> IF x = k THEN v ELSE o[x]]

\* obj.get(k).and_then(|x| x.as_str()) is Some
has_str(o, k) == contains_key(o, k) /\ is_str(o[k])

(***************************************************************************)
(* Result<Value> of the validator: Ok(v) or Err(e) with e.to_string().     *)
(***************************************************************************)
Ok(v) == [ok |-> TRUE, v |-> v]
Err(msg) == [ok |-> FALSE, err |-> msg]

(***************************************************************************)
(* impl Display for ValidationErrorType.                                   *)
(***************************************************************************)
SchemaValidationMsg(msg) == "Schema validation failed: " \o msg
MissingRequiredFieldMsg(field) == "Missing required field: " \o field
InvalidFieldValueMsg(field, reason) == "Invalid value for " \o field \o ": " \o reason
DuplicatePartOfSpeechMsg(pos) == "Duplicate part of speech: " \o pos
InsufficientMeaningsMsg == "At least one meaning is required"
InvalidPhoneticMsg(reason) == "Invalid phonetic transcription: " \o reason

(***************************************************************************)
(* Validator::fix_basic_structure.                                         *)
(***************************************************************************)
required_fields == <<"baseForm", "phonetic", "difficulty", "language", "meanings">>

\* first element of the list fields that is not a key of o, or "" if none
RECURSIVE FirstMissing(_, _, _)
FirstMissing(o, fields, i) ==
  IF i > Len(fields) THEN ""
  ELSE IF ~contains_key(o, fields[i]) THEN fields[i]
  ELSE FirstMissing(o, fields, i + 1)

fix_language(o) ==
  IF has_str(o, "language") /\ o["language"].s # "english"
  THEN insert(o, "language", Str("english"))
  ELSE o

fix_difficulty(o) ==
  IF has_str(o, "difficulty")
     /\ o["difficulty"].s \notin {"beginner", "intermediate", "advanced"}
  THEN insert(o, "difficulty", Str("intermediate"))
  ELSE o

\* mutant: the slashes are added whether or not the text has them
wrap_phonetic_AlwaysWrap(trimmed) == "/" \o trimmed \o "/"

\* lines 92-98, for trimmed = phonetic.trim()
wrap_phonetic(trimmed) ==
  IF starts_with(trimmed, "/") /\ ends_with(trimmed, "/") /\ Len(trimmed) >= 2
  THEN trimmed
  ELSE "/" \o trim_matches(trimmed, "/") \o "/"

normalize_phonetic(phonetic) == wrap_phonetic(trim(phonetic))

\* lines 87-105, for the object o after the language and difficulty fixups
fix_phonetic(o) ==
  IF is_str(o["phonetic"])
  THEN Ok(Obj(insert(o, "phonetic", Str(normalize_phonetic(o["phonetic"].s)))))
  ELSE Err(InvalidPhoneticMsg("phonetic must be a string"))

\* lines 63-105, for the object o after the word was overwritten
check_required_fields(o) ==
  IF FirstMissing(o, required_fields, 1) # ""
  THEN Err(MissingRequiredFieldMsg(FirstMissing(o, required_fields, 1)))
  ELSE fix_phonetic(fix_difficulty(fix_language(o)))

\* mutant: the word is set only when the gateway output has none
fix_basic_structure_KeepEcho(v, surface_word) ==
  IF ~is_object(v) THEN Err("Expected JSON object at root")
  ELSE check_required_fields(
         IF contains_key(v.o, "word") THEN v.o
         ELSE insert(v.o, "word", Str(surface_word)))

fix_basic_structure(v, surface_word) ==
  IF ~is_object(v) THEN Err("Expected JSON object at root")
  ELSE check_required_fields(insert(v.o, "word", Str(surface_word)))

(***************************************************************************)
(* Validator::validate_and_fix_meanings.                                   *)
(***************************************************************************)
valid_pos ==
  {"noun", "verb", "adjective", "adverb", "pronoun", "preposition",
   "conjunction", "interjection", "article", "determiner", "numeral",
   "participle", "gerund"}

required_meaning_fields == <<"definition", "exampleSentence", "grammarTip", "translations">>

required_langs == <<"es", "fr", "de", "zh", "ja", "it", "pt", "ru", "ar">>

\* mutant: a repeated item is kept
push_unique_KeepRepeats(cleaned, normalized) ==
  IF normalized # "" THEN Append(cleaned, Str(normalized)) ELSE cleaned

\* lines 162-164: keep a normalized item that is not empty and not yet seen
push_unique(cleaned, normalized) ==
  IF normalized # "" /\ \A j \in 1..Len(cleaned) : cleaned[j] # Str(normalized)
  THEN Append(cleaned, Str(normalized))
  ELSE cleaned

\* the inner loop over arr.iter(): trim, lowercase, drop empties and repeats
RECURSIVE clean_items(_, _, _)
clean_items(arr, i, cleaned) ==
  IF i > Len(arr) THEN cleaned
  ELSE clean_items(arr, i + 1,
         IF is_str(arr[i])
         THEN push_unique(cleaned, to_lowercase(trim(arr[i].s)))
         ELSE cleaned)

fix_list(m, key) ==
  IF contains_key(m, key) /\ is_array(m[key])
  THEN insert(m, key, Arr(clean_items(m[key].a, 1, <<>>)))
  ELSE insert(m, key, Arr(<<>>))

\* mutant: a missing translation is filled in with an empty string
check_translations_AutoFill(m, idx, pos) ==
  IF is_object(m["translations"])
  THEN [ok |-> TRUE,
        v |-> Obj(insert(m, "translations",
                Obj([k \in (DOMAIN m["translations"].o)
                            \cup {required_langs[i] : i \in 1..Len(required_langs)} |->
                       IF k \in DOMAIN m["translations"].o
                       THEN m["translations"].o[k] ELSE Str("")]))),
        pos |-> pos]
  ELSE [ok |-> TRUE, v |-> Obj(m), pos |-> pos]

\* lines 185-195, for the meaning object m; pos is its normalized partOfSpeech
check_translations(m, idx, pos) ==
  IF is_object(m["translations"])
     /\ FirstMissing(m["translations"].o, required_langs, 1) # ""
  THEN Err(MissingRequiredFieldMsg(
         "translation for '" \o FirstMissing(m["translations"].o, required_langs, 1)
           \o "' in meaning " \o IdxStr(idx)))
  ELSE [ok |-> TRUE, v |-> Obj(m), pos |-> pos]

\* mutant: the translation keys are checked before the presence of the fields
check_meaning_fields_TranslationsFirst(m, idx, pos) ==
  IF contains_key(m, "translations") /\ ~check_translations(m, idx, pos).ok
  THEN check_translations(m, idx, pos)
  ELSE IF FirstMissing(m, required_meaning_fields, 1) # ""
  THEN Err(MissingRequiredFieldMsg(
         FirstMissing(m, required_meaning_fields, 1) \o " in meaning " \o IdxStr(idx)))
  ELSE check_translations(m, idx, pos)

\* lines 175-183
check_meaning_fields(m, idx, pos) ==
  IF FirstMissing(m, required_meaning_fields, 1) # ""
  THEN Err(MissingRequiredFieldMsg(
         FirstMissing(m, required_meaning_fields, 1) \o " in meaning " \o IdxStr(idx)))
  ELSE check_translations(m, idx, pos)

\* mutant: the repetition test compares the partOfSpeech as it was written
check_pos_CaseSensitive(m, idx, seen_pos, pos, pos_lower) ==
  IF pos_lower \notin valid_pos
  THEN Err(InvalidFieldValueMsg("partOfSpeech",
             "'" \o pos \o "' is not a valid part of speech"))
  ELSE IF pos \in seen_pos
  THEN Err(DuplicatePartOfSpeechMsg(pos))
  ELSE check_meaning_fields(
         fix_list(fix_list(insert(m, "partOfSpeech", Str(pos_lower)), "synonyms"),
                  "antonyms"),
         idx, pos_lower)

\* lines 133-173, for pos = the partOfSpeech string and pos_lower = pos.to_lowercase()
check_pos(m, idx, seen_pos, pos, pos_lower) ==
  IF pos_lower \notin valid_pos
  THEN Err(InvalidFieldValueMsg("partOfSpeech",
             "'" \o pos \o "' is not a valid part of speech"))
  ELSE IF pos_lower \in seen_pos
  THEN Err(DuplicatePartOfSpeechMsg(pos))
  ELSE check_meaning_fields(
         fix_list(fix_list(insert(m, "partOfSpeech", Str(pos_lower)), "synonyms"),
                  "antonyms"),
         idx, pos_lower)

\* one iteration of the loop over meanings; idx is the Rust (0-based) index
fix_meaning(meaning, idx, seen_pos) ==
  IF ~is_object(meaning)
  THEN Err("Meaning " \o IdxStr(idx) \o " must be an object")
  ELSE IF ~has_str(meaning.o, "partOfSpeech")
  THEN Err(MissingRequiredFieldMsg("partOfSpeech in meaning " \o IdxStr(idx)))
  ELSE check_pos(meaning.o, idx, seen_pos, meaning.o["partOfSpeech"].s,
                 to_lowercase(meaning.o["partOfSpeech"].s))

RECURSIVE fix_meanings_loop(_, _, _, _)
\* mutant: a meaning that fails a check is dropped and the others are kept
fix_meanings_next_SkipInvalid(meanings, i, seen_pos, fixed, r) ==
  IF ~r.ok THEN fix_meanings_loop(meanings, i + 1, seen_pos, fixed)
  ELSE fix_meanings_loop(meanings, i + 1, seen_pos \cup {r.pos}, Append(fixed, r.v))

\* the `?`/return of iteration i with result r, or the next iteration
fix_meanings_next(meanings, i, seen_pos, fixed, r) ==
  IF ~r.ok THEN r
  ELSE fix_meanings_loop(meanings, i + 1, seen_pos \cup {r.pos}, Append(fixed, r.v))

fix_meanings_loop(meanings, i, seen_pos, fixed) ==
  IF i > Len(meanings) THEN Ok(Arr(fixed))
  ELSE fix_meanings_next(meanings, i, seen_pos, fixed,
                         fix_meaning(meanings[i], i - 1, seen_pos))

\* the value with its meanings replaced by the repaired ones (in-place mutation)
with_meanings(v, r) ==
  IF ~r.ok THEN r ELSE Ok(Obj(insert(v.o, "meanings", r.v)))

validate_and_fix_meanings(v) ==
  IF ~(contains_key(v.o, "meanings") /\ is_array(v.o["meanings"]))
  THEN Err(MissingRequiredFieldMsg("meanings"))
  ELSE IF Len(v.o["meanings"].a) = 0
  THEN Err(InsufficientMeaningsMsg)
  ELSE with_meanings(v, fix_meanings_loop(v.o["meanings"].a, 1, {}, <<>>))

(***************************************************************************)
(* Validator::apply_schema_validation.  The declared schema                *)
(* (schema/word_contract.schema.json) is not part of the sources; its      *)
(* rules are taken from the data model of the specification: string typed  *)
(* fields, difficulty and language enumerations, 1 to 4 meanings, and      *)
(* translations with exactly the 9 language codes.                         *)
(***************************************************************************)
MaxMeanings == 4

meaning_schema_errors(m, idx) ==
  LET path == "at /meanings/" \o IdxStr(idx)
      strErr(f) == IF ~is_object(m) \/ ~contains_key(m.o, f) \/ ~is_str(m.o[f])
                   THEN <<path \o "/" \o f \o ": Type">> ELSE <<>>
      trErr == IF ~is_object(m) \/ ~contains_key(m.o, "translations")
                  \/ ~is_object(m.o["translations"])
               THEN <<path \o "/translations: Type">>
               ELSE IF DOMAIN m.o["translations"].o
                         # {required_langs[i] : i \in 1..Len(required_langs)}
               THEN <<path \o "/translations: AdditionalProperties">>
               ELSE <<>>
  IN  strErr("definition") \o strErr("exampleSentence") \o strErr("grammarTip") \o trErr

RECURSIVE meanings_schema_errors(_, _)
meanings_schema_errors(meanings, i) ==
  IF i > Len(meanings) THEN <<>>
  ELSE meaning_schema_errors(meanings[i], i - 1) \o meanings_schema_errors(meanings, i + 1)

schema_errors(v) ==
  LET o == v.o
      e1 == IF ~is_str(o["baseForm"]) THEN <<"at /baseForm: Type">> ELSE <<>>
      e2 == IF ~is_str(o["difficulty"]) THEN <<"at /difficulty: Type">>
            ELSE IF o["difficulty"].s \notin {"beginner", "intermediate", "advanced"}
            THEN <<"at /difficulty: Enum">> ELSE <<>>
      e3 == IF o["language"] # Str("english") THEN <<"at /language: Constant">> ELSE <<>>
      e4 == IF Len(o["meanings"].a) > MaxMeanings THEN <<"at /meanings: MaxItems">> ELSE <<>>
  IN  e1 \o e2 \o e3 \o e4 \o meanings_schema_errors(o["meanings"].a, 1)

RECURSIVE join(_, _)
join(msgs, sep) ==
  IF Len(msgs) = 0 THEN ""
  ELSE IF Len(msgs) = 1 THEN msgs[1]
  ELSE msgs[1] \o sep \o join(Tail(msgs), sep)

take(msgs, n) == SubSeq(msgs, 1, IF Len(msgs) < n THEN Len(msgs) ELSE n)

\* lines 213-225, for the schema errors of v
schema_result(v, errors) ==
  IF Len(errors) > 0
  THEN Err(SchemaValidationMsg(join(take(errors, 5), "; ")))
  ELSE Ok(v)

apply_schema_validation(v) == schema_result(v, schema_errors(v))

(***************************************************************************)
(* Validator::validate_and_fix: the three steps, each one short-circuits   *)
(* with the `?` operator.                                                  *)
(***************************************************************************)
\* self.validate_and_fix_meanings(&mut v)? after step 1 gave r
then_meanings(r) == IF ~r.ok THEN r ELSE validate_and_fix_meanings(r.v)

\* self.apply_schema_validation(&v)? after step 2 gave r
then_schema(r) == IF ~r.ok THEN r ELSE apply_schema_validation(r.v)

\* mutant: the schema pass runs before the checks of the meanings
validate_and_fix_SchemaFirst(v, surface_word) ==
  then_meanings(then_schema(fix_basic_structure(v, surface_word)))

validate_and_fix(v, surface_word) ==
  then_schema(then_meanings(fix_basic_structure(v, surface_word)))

(***************************************************************************)
(* Gateway outputs used as inputs of the model.                            *)
(***************************************************************************)
Translations ==
  Obj([k \in {"es", "fr", "de", "zh", "ja", "it", "pt", "ru", "ar"} |-> Str("x")])

Meaning(pos) ==
  Obj([partOfSpeech |-> Str(pos),
       definition |-> Str("d"),
       exampleSentence |-> Str("e"),
       grammarTip |-> Str("g"),
       synonyms |-> Arr(<<Str("A"), Str("a")>>),
       antonyms |-> Arr(<<>>),
       translations |-> Translations])

Doc(meanings) ==
  [word |-> Str("echo"), baseForm |-> Str("test"), phonetic |-> Str("test"),
   difficulty |-> Str("beginner"), language |-> Str("english"),
   meanings |-> Arr(meanings)]

ValidDoc == Obj(Doc(<<Meaning("noun")>>))

DupPosDoc == Obj(Doc(<<Meaning("noun"), Meaning("Noun")>>))

BadPosDoc == Obj(Doc(<<Meaning("foo")>>))

MissingFieldDoc ==
  Obj([k \in (DOMAIN Doc(<<>>)) \ {"baseForm"} |-> Doc(<<Meaning("noun")>>)[k]])

SchemaBadDoc == Obj(insert(Doc(<<Meaning("verb")>>), "baseForm", Num(1)))

\* Result<Vec<u8>> of LlmBackend::infer_json
GwErr == [ok |-> FALSE, err |-> "backend failure"]
GwText == [ok |-> TRUE, bytes |-> [json |-> FALSE, text |-> "not json"]]
GwJson(v) == [ok |-> TRUE, bytes |-> [json |-> TRUE, value |-> v]]

\* an output with no meaning at all
EmptyMeaningsDoc == Obj(Doc(<<>>))

\* an output whose only meaning has no Arabic translation
MissingTranslationDoc ==
  Obj(Doc(<<Obj(insert(Meaning("noun").o, "translations",
                       Obj([k \in (DOMAIN Translations.o) \ {"ar"} |-> Str("x")])))>>))

\* an output whose first meaning is acceptable and whose second is not
PartialDoc == Obj(Doc(<<Meaning("verb"), Meaning("foo")>>))

\* the gateway behaviours the model draws from, by name
Gateway ==
  [err |-> GwErr, text |-> GwText, valid |-> GwJson(ValidDoc),
   dup |-> GwJson(DupPosDoc), badpos |-> GwJson(BadPosDoc),
   missing |-> GwJson(MissingFieldDoc),
   empty |-> GwJson(EmptyMeaningsDoc), notrans |-> GwJson(MissingTranslationDoc),
   partial |-> GwJson(PartialDoc), schema |-> GwJson(SchemaBadDoc)]

\* the behaviours drawn for the pipelines of a batch
GatewayResults == {"err", "text", "valid", "dup", "badpos", "missing"}

\* the behaviours drawn for the pipeline of a single-word request
WordGatewayResults == DOMAIN Gateway

\* serde_json::from_slice::<Value>(&bytes)
from_slice(bytes) ==
  IF bytes.json THEN Ok(bytes.value) ELSE Err("expected value at line 1 column 1")

(***************************************************************************)
(* ApiErrorType.                                                           *)
(***************************************************************************)
should_retry(kind) == kind \in {"Inference", "Internal"}

\* mutant: a gateway failure is reported as an internal error
status_code_InferenceAsInternal(kind) ==
  CASE kind = "Validation" -> 422
    [] kind = "JsonParse" -> 422
    [] kind = "Inference" -> 500
    [] kind = "Internal" -> 500

status_code(kind) ==
  CASE kind = "Validation" -> 422
    [] kind = "JsonParse" -> 422
    [] kind = "Inference" -> 503
    [] kind = "Internal" -> 500

error_type_str(kind) ==
  CASE kind = "Validation" -> "validation_error"
    [] kind = "JsonParse" -> "json_parse_error"
    [] kind = "Inference" -> "inference_error"
    [] kind = "Internal" -> "internal_error"

(***************************************************************************)
(* attempt_word_inference: one iteration of the loop `for attempt in       *)
(* 0..=MAX_RETRIES`, from the gateway result gw to either `continue`       *)
(* (after the retry delay) or `return`.                                    *)
(***************************************************************************)
Success(v) == [ok |-> TRUE, v |-> v]
Failure(kind, msg) == [ok |-> FALSE, kind |-> kind, msg |-> msg]

Retry == [retry |-> TRUE]
Return(result) == [retry |-> FALSE, result |-> result]

AttemptsStr == IdxStr(MAX_RETRIES + 1)

\* mutant: an invalid value is no longer recognised as final
non_retryable_NoInvalidValue(error_msg) ==
  \/ Contains(error_msg, "Missing required field")
  \/ Contains(error_msg, "duplicate partOfSpeech")

non_retryable(error_msg) ==
  \/ Contains(error_msg, "Missing required field")
  \/ Contains(error_msg, "Invalid value")
  \/ Contains(error_msg, "duplicate partOfSpeech")

\* mutant: one retry too few after a gateway error
on_inference_error_OneRetry(attempt) ==
  IF attempt < MAX_RETRIES - 1 THEN Retry
  ELSE Return(Failure("Inference",
         "LLM inference failed after " \o AttemptsStr \o " attempts: "
           \o "LLM inference failed"))

\* mutant: a gateway error is retried on the last attempt as well
on_inference_error_NoLimit(attempt) ==
  IF attempt <= MAX_RETRIES THEN Retry
  ELSE Return(Failure("Inference",
         "LLM inference failed after " \o AttemptsStr \o " attempts: "
           \o "LLM inference failed"))

\* Err(e) of backend.infer_json (lines 284-293)
on_inference_error(attempt) ==
  IF attempt < MAX_RETRIES THEN Retry
  ELSE Return(Failure("Inference",
         "LLM inference failed after " \o AttemptsStr \o " attempts: "
           \o "LLM inference failed"))

\* mutant: the last attempt retries as well
on_parse_error_NoLimit(attempt, e) ==
  IF attempt <= MAX_RETRIES THEN Retry
  ELSE Return(Failure("JsonParse", "Failed to parse JSON response: " \o e))

\* mutant: unparsable bytes on the last attempt are reported as a gateway error
on_parse_error_AsInference(attempt, e) ==
  IF attempt < MAX_RETRIES THEN Retry
  ELSE Return(Failure("Inference", "Failed to parse JSON response: " \o e))

\* Err(e) of serde_json::from_slice (lines 299-308)
on_parse_error(attempt, e) ==
  IF attempt < MAX_RETRIES THEN Retry
  ELSE Return(Failure("JsonParse", "Failed to parse JSON response: " \o e))

\* Err(e) of validator.validate_and_fix (lines 317-335)
on_validation_error(attempt, error_msg) ==
  IF non_retryable(error_msg) THEN Return(Failure("Validation", error_msg))
  ELSE IF attempt < MAX_RETRIES THEN Retry
  ELSE Return(Failure("Validation",
         "Validation failed after " \o AttemptsStr \o " attempts: " \o error_msg))

\* lines 311-336, for r = validator.validate_and_fix(json_value, word)
after_validation(attempt, r) ==
  IF r.ok THEN Return(Success(r.v)) ELSE on_validation_error(attempt, r.err)

\* lines 296-336, for parsed = serde_json::from_slice(&bytes)
after_parse(attempt, parsed, word) ==
  IF ~parsed.ok THEN on_parse_error(attempt, parsed.err)
  ELSE after_validation(attempt, validate_and_fix(parsed.v, word))

attempt_step(attempt, gw, word) ==
  IF ~gw.ok THEN on_inference_error(attempt)
  ELSE after_parse(attempt, from_slice(gw.bytes), word)

(***************************************************************************)
(* State of one /v1/words request.                                         *)
(*   hpc      position of the handler: "idle" (no request yet), "dispatch" *)
(*            (top of the for loop), "backpressure" (set.join_next().await  *)
(*            inside the loop), "drain" (the while-let loop), "responded",  *)
(*            "panicked" (the expect on a missing batch item failed);       *)
(*            "single" (the /v1/word handler awaits its pipeline)           *)
(*   words    req.words; concurrency_limit, results, set and idx as in the *)
(*            handler; out and status are the response                     *)
(*   tasks    the spawned pipelines: pc is "new" (not spawned), "infer"    *)
(*            (awaiting backend.infer_json), "sleep" (awaiting the retry   *)
(*            delay), "done" (returned) or "panicked"                      *)
(*   calls, delays, writers   history: gateway calls and retry delays per  *)
(*            pipeline, and for every slot the tasks whose join wrote it   *)
(*   last_gw, only_err, only_valid   history per pipeline: the name of the *)
(*            gateway result of its latest call ("none" before the first   *)
(*            one returns), whether every call so far returned an error,   *)
(*            whether every call so far returned the valid output          *)
(***************************************************************************)
VARIABLES hpc, words, concurrency_limit, results, set, idx, out, status,
          tasks, calls, delays, writers, last_gw, only_err, only_valid,
          json_value, req_word, validated,
          gateway_script, infer_params, single_run, batch_run,
          generated, extracted,
          callers, compilations, schema_value_inits,
          infer_concurrency, num_cpus, limiter, gen_calls

vars == <<hpc, words, concurrency_limit, results, set, idx, out, status,
          tasks, calls, delays, writers, last_gw, only_err, only_valid,
          json_value, req_word, validated,
          gateway_script, infer_params, single_run, batch_run,
          generated, extracted,
          callers, compilations, schema_value_inits,
          infer_concurrency, num_cpus, limiter, gen_calls>>

gw_hist == <<last_gw, only_err, only_valid>>

\* the state of the request handlers
handler_vars == <<hpc, words, concurrency_limit, results, set, idx, out, status,
                  tasks, calls, delays, writers, last_gw, only_err, only_valid>>

\* the state of one direct call of the validator (see ValidatorSpec): the
\* parsed gateway output, the surface word and the Result; the request
\* handlers leave it alone
call_vars == <<json_value, req_word, validated>>

\* the state of one word sent to both endpoints (see EndpointSpec): the
\* results the backend returns to the successive infer_json calls of a
\* pipeline, the InferParams the routes were built with, and what each
\* endpoint did with the word req_word
run_vars == <<gateway_script, infer_params, single_run, batch_run>>

\* the state of one extraction (see ExtractSpec): the text the model
\* generated and the Option that extract_json_bytes returns for it
text_vars == <<generated, extracted>>

\* the state of the process as to the schema (see SchemaSpec): the position
\* of every caller of validate_and_fix, the number of JSONSchema compilations
\* and the number of initialisations of the static SCHEMA_VALUE
schema_vars == <<callers, compilations, schema_value_inits>>

\* the state of the inference gateway (see GatewaySpec): the configured
\* INFER_CONCURRENCY, the number of logical CPUs, the permits available in
\* the Semaphore `limiter` and the position of every infer_json call
limiter_vars == <<infer_concurrency, num_cpus, limiter, gen_calls>>

\* what the request handlers leave alone
pure_vars == <<call_vars, run_vars, text_vars, schema_vars, limiter_vars>>

None == [none |-> TRUE]

WordPool == <<"ok1", "fail", "ok2", "w4", "w5", "w6">>

N == Len(words)

NewTask == [pc |-> "new", attempt |-> 0, outcome |-> None]

\* no request has been received
InitHandlers ==
  /\ hpc = "idle"
  /\ words = <<>>
  /\ concurrency_limit = 1
  /\ results = <<>>
  /\ set = {}
  /\ idx = 1
  /\ out = <<>>
  /\ status = 0
  /\ tasks = <<>>
  /\ calls = <<>>
  /\ delays = <<>>
  /\ writers = <<>>
  /\ last_gw = <<>>
  /\ only_err = <<>>
  /\ only_valid = <<>>

\* no call of the validator is described
IdleCall ==
  /\ json_value = None
  /\ req_word = ""
  /\ validated = None

\* no word is sent to both endpoints
IdleRun ==
  /\ gateway_script = <<>>
  /\ infer_params = None
  /\ single_run = None
  /\ batch_run = None

\* the value of a result that has not been computed
NotRun == [pending |-> TRUE]

\* no extraction is described
IdleText ==
  /\ generated = ""
  /\ extracted = NotRun

\* no caller of the validator is described
IdleSchema ==
  /\ callers = <<>>
  /\ compilations = 0
  /\ schema_value_inits = 0

\* no gateway is described
IdleLimiter ==
  /\ infer_concurrency = 0
  /\ num_cpus = 1
  /\ limiter = 0
  /\ gen_calls = <<>>

Init ==
  /\ InitHandlers
  /\ IdleCall
  /\ IdleRun
  /\ IdleText
  /\ IdleSchema
  /\ IdleLimiter

(***************************************************************************)
(* The handler receives a request: n = req.words.len(), results =          *)
(* vec![None; n], an empty JoinSet, the concurrency limit (a positive      *)
(* INFER_CONCURRENCY or min(8, num_cpus)).  With n = 0 the for loop has no *)
(* iteration and the handler is at the drain loop.                         *)
(***************************************************************************)
Receive(n, c) ==
  /\ hpc = "idle"
  /\ words' = [i \in 1..n |-> WordPool[i]]
  /\ concurrency_limit' = c
  /\ results' = [i \in 1..n |-> None]
  /\ set' = {}
  /\ idx' = 1
  /\ tasks' = [i \in 1..n |-> NewTask]
  /\ calls' = [i \in 1..n |-> 0]
  /\ delays' = [i \in 1..n |-> 0]
  /\ writers' = [i \in 1..n |-> <<>>]
  /\ last_gw' = [i \in 1..n |-> "none"]
  /\ only_err' = [i \in 1..n |-> TRUE]
  /\ only_valid' = [i \in 1..n |-> TRUE]
  /\ hpc' = IF n = 0 THEN "drain" ELSE "dispatch"
  /\ UNCHANGED <<out, status>>
  /\ UNCHANGED pure_vars

(***************************************************************************)
(* set.spawn(...) for index idx, then the backpressure test.  The spawned  *)
(* pipeline enters attempt 0 and calls the gateway.                        *)
(***************************************************************************)
\* mutant: the loop leaves one iteration early
AfterIteration_EarlyExit(i) == IF i + 1 >= N THEN "drain" ELSE "dispatch"

AfterIteration(i) == IF i + 1 > N THEN "drain" ELSE "dispatch"

\* mutant: the backpressure test admits one pipeline too many
set_full_Strict(s, limit) == Cardinality(s) > limit

\* if set.len() >= concurrency_limit
set_full(s, limit) == Cardinality(s) >= limit

Spawn ==
  /\ hpc = "dispatch"
  /\ tasks' = [tasks EXCEPT ![idx] = [pc |-> "infer", attempt |-> 0, outcome |-> None]]
  /\ calls' = [calls EXCEPT ![idx] = @ + 1]
  /\ set' = set \cup {idx}
  /\ IF set_full(set', concurrency_limit)
     THEN /\ hpc' = "backpressure"
          /\ idx' = idx
     ELSE /\ hpc' = AfterIteration(idx)
          /\ idx' = idx + 1
  /\ UNCHANGED <<words, concurrency_limit, results, out, status, delays, writers>>
  /\ UNCHANGED gw_hist
  /\ UNCHANGED pure_vars

(***************************************************************************)
(* The json!() entries written into results.                               *)
(***************************************************************************)
OkEntry(word, v) == [word |-> word, ok |-> TRUE, data |-> v]

ErrEntry(word, kind, msg) ==
  [word |-> word, ok |-> FALSE, error |-> msg,
   error_type |-> error_type_str(kind), retry_suggested |-> should_retry(kind)]

JoinErrEntry(word, msg) == [word |-> word, ok |-> FALSE, error |-> msg]

\* results.iter().position(|x| x.is_none()), 0 when there is none
FirstNone(res) ==
  IF \E p \in 1..Len(res) : res[p] = None
  THEN CHOOSE p \in 1..Len(res) : res[p] = None /\ \A q \in 1..(p - 1) : res[q] # None
  ELSE 0

\* mutant: results are stored in completion order instead of by index
JoinSlot_CompletionOrder(i) == FirstNone(results)

\* the slot that the match on a join result of task i writes: Ok(Ok((idx,
\* inner))) writes results[idx], Err(join_err) the first slot that is None
JoinSlot(i) == IF tasks[i].pc = "done" THEN i ELSE FirstNone(results)

\* mutant: once a sibling has failed, its failure is reported for every word
JoinEntry_FailFast(i, p) ==
  IF tasks[i].pc = "done"
  THEN IF \E j \in DOMAIN tasks : tasks[j].pc = "done" /\ ~tasks[j].outcome.ok
       THEN LET j == CHOOSE k \in DOMAIN tasks :
                       tasks[k].pc = "done" /\ ~tasks[k].outcome.ok
            IN  ErrEntry(words[p], tasks[j].outcome.kind, tasks[j].outcome.msg)
       ELSE OkEntry(words[p], tasks[i].outcome.v)
  ELSE JoinErrEntry(words[p], "task panicked")

JoinEntry(i, p) ==
  IF tasks[i].pc = "done"
  THEN IF tasks[i].outcome.ok
       THEN OkEntry(words[p], tasks[i].outcome.v)
       ELSE ErrEntry(words[p], tasks[i].outcome.kind, tasks[i].outcome.msg)
  ELSE JoinErrEntry(words[p], "task panicked")

\* the write of the match on a join result of task i into slot p (0: no write)
WriteSlot(i, p) ==
  IF p = 0
  THEN UNCHANGED <<results, writers>>
  ELSE /\ results' = [results EXCEPT ![p] = JoinEntry(i, p)]
       /\ writers' = [writers EXCEPT ![p] = Append(@, i)]

\* the match on the value of set.join_next().await, for the finished task i
HandleJoin(i) ==
  /\ set' = set \ {i}
  /\ WriteSlot(i, JoinSlot(i))

\* mutant: join_next never yields a pipeline that returned a failure
Finished_OnlySuccess(i) ==
  \/ tasks[i].pc = "panicked"
  \/ tasks[i].pc = "done" /\ tasks[i].outcome.ok

\* the task i has ended, so that join_next can yield it
Finished(i) == tasks[i].pc \in {"done", "panicked"}

\* set.join_next().await in the for loop, when the set is full
JoinBackpressure(i) ==
  /\ hpc = "backpressure"
  /\ i \in set
  /\ Finished(i)
  /\ HandleJoin(i)
  /\ hpc' = AfterIteration(idx)
  /\ idx' = idx + 1
  /\ UNCHANGED <<words, concurrency_limit, out, status, tasks, calls, delays>>
  /\ UNCHANGED gw_hist
  /\ UNCHANGED pure_vars

\* while let Some(res) = set.join_next().await
JoinDrain(i) ==
  /\ hpc = "drain"
  /\ i \in set
  /\ Finished(i)
  /\ HandleJoin(i)
  /\ UNCHANGED <<hpc, idx, words, concurrency_limit, out, status, tasks, calls, delays>>
  /\ UNCHANGED gw_hist
  /\ UNCHANGED pure_vars

\* join_next() returned None: collect the slots and answer
Respond ==
  /\ hpc = "drain"
  /\ set = {}
  /\ \A p \in 1..N : results[p] # None
  /\ out' = results
  /\ status' = 200
  /\ hpc' = "responded"
  /\ UNCHANGED <<words, concurrency_limit, results, set, idx, tasks, calls, delays, writers>>
  /\ UNCHANGED gw_hist
  /\ UNCHANGED pure_vars

\* v.expect("batch item missing") on a slot that is still None
CollectPanic ==
  /\ hpc = "drain"
  /\ set = {}
  /\ \E p \in 1..N : results[p] = None
  /\ hpc' = "panicked"
  /\ UNCHANGED <<words, concurrency_limit, results, set, idx, out, status,
                 tasks, calls, delays, writers>>
  /\ UNCHANGED gw_hist
  /\ UNCHANGED pure_vars

(***************************************************************************)
(* Steps of the pipeline task i (attempt_word_inference inside the spawned *)
(* future).                                                                *)
(***************************************************************************)
\* mutant: the retry delay is taken twice
TakeStep_DoubleDelay(i, step) ==
  IF step.retry
  THEN /\ tasks' = [tasks EXCEPT ![i].pc = "sleep"]
       /\ delays' = [delays EXCEPT ![i] = @ + 2]
  ELSE /\ tasks' = [tasks EXCEPT ![i].pc = "done", ![i].outcome = step.result]
       /\ UNCHANGED delays

\* the task i takes the step of its attempt: sleep before a retry, or return
TakeStep(i, step) ==
  IF step.retry
  THEN /\ tasks' = [tasks EXCEPT ![i].pc = "sleep"]
       /\ delays' = [delays EXCEPT ![i] = @ + 1]
  ELSE /\ tasks' = [tasks EXCEPT ![i].pc = "done", ![i].outcome = step.result]
       /\ UNCHANGED delays

\* backend.infer_json returns Gateway[g]; the rest of the iteration runs to
\* the sleep or to the return
GatewayReturn(i, g) ==
  /\ i \in DOMAIN tasks
  /\ tasks[i].pc = "infer"
  /\ last_gw' = [last_gw EXCEPT ![i] = g]
  /\ only_err' = [only_err EXCEPT ![i] = @ /\ g = "err"]
  /\ only_valid' = [only_valid EXCEPT ![i] = @ /\ g = "valid"]
  /\ TakeStep(i, attempt_step(tasks[i].attempt, Gateway[g], words[i]))
  /\ UNCHANGED <<hpc, words, concurrency_limit, results, set, idx, out, status,
                 calls, writers>>
  /\ UNCHANGED pure_vars

\* tokio::time::sleep(RETRY_DELAY) elapses; continue with the next attempt,
\* which calls the gateway again
RetryWake(i) ==
  /\ i \in DOMAIN tasks
  /\ tasks[i].pc = "sleep"
  /\ tasks' = [tasks EXCEPT ![i].pc = "infer", ![i].attempt = @ + 1]
  /\ calls' = [calls EXCEPT ![i] = @ + 1]
  /\ UNCHANGED <<hpc, words, concurrency_limit, results, set, idx, out, status,
                 delays, writers>>
  /\ UNCHANGED gw_hist
  /\ UNCHANGED pure_vars

\* the task panics inside the backend call (LlamaBackend::infer_json has
\* expect/unwrap and slices the generated text at byte 500, which panics
\* inside a multi-byte character); join_next then yields Err(join_err).
\* The arm Ok(Err(e)) of the match cannot be taken: the spawned future
\* always returns Ok((idx, result)).
TaskPanic(i) ==
  /\ i \in DOMAIN tasks
  /\ tasks[i].pc = "infer"
  /\ Cardinality({j \in DOMAIN tasks : tasks[j].pc = "panicked"}) < MaxPanics
  /\ tasks' = [tasks EXCEPT ![i].pc = "panicked"]
  /\ UNCHANGED <<hpc, words, concurrency_limit, results, set, idx, out, status,
                 calls, delays, writers>>
  /\ UNCHANGED gw_hist
  /\ UNCHANGED pure_vars

Next ==
  \/ \E n \in 0..MaxWords, c \in 1..MaxConcurrency : Receive(n, c)
  \/ Spawn
  \/ \E i \in set : JoinBackpressure(i)
  \/ \E i \in set : JoinDrain(i)
  \/ Respond
  \/ CollectPanic
  \/ \E i \in DOMAIN tasks, g \in GatewayResults : GatewayReturn(i, g)
  \/ \E i \in DOMAIN tasks : RetryWake(i)
  \/ \E i \in DOMAIN tasks : TaskPanic(i)

Spec == Init /\ [][Next]_vars

(***************************************************************************)
(* The /v1/word handler (routes, lines 82-130).  It is described with the  *)
(* state of a request of one word: words = <<req.word>>, tasks[1] is the   *)
(* pipeline the handler awaits (hpc = "single" while it does), out =       *)
(* <<body>> and status are the response.                                   *)
(***************************************************************************)
\* a word of 101 characters
LongWord ==
  "aaaaaaaaaaaaaaaaaaaaaaaaaaaaaaaaaaaaaaaaaaaaaaaaaaaaaaaaaaaaaaaaaaaaaaaaaaaaaaaaaaaaaaaaaaaaaaaaaaaaa"

WordRequests == {"Test", "fail", "ok1", "", "  ", LongWord, " Word "}

ErrorResponse(error, error_type, word, retry_suggested) ==
  [error |-> error, error_type |-> error_type, word |-> word,
   retry_suggested |-> retry_suggested]

\* the early returns of the input validation (lines 89-108), None without one
input_rejection(word) ==
  IF trim(word) = ""
  THEN ErrorResponse("Word cannot be empty", "validation_error", word, FALSE)
  ELSE IF Len(word) > 100
  THEN ErrorResponse("Word too long (max 100 characters)", "validation_error",
                     word, FALSE)
  ELSE None

\* answer BAD_REQUEST with the rejection, or call attempt_word_inference
RejectOrRun(rejection) ==
  IF rejection # None
  THEN /\ hpc' = "responded"
       /\ status' = 400
       /\ out' = <<rejection>>
       /\ tasks' = <<NewTask>>
       /\ calls' = <<0>>
  ELSE /\ hpc' = "single"
       /\ tasks' = <<[pc |-> "infer", attempt |-> 0, outcome |-> None]>>
       /\ calls' = <<1>>
       /\ UNCHANGED <<out, status>>

ReceiveWord(w) ==
  /\ hpc = "idle"
  /\ words' = <<w>>
  /\ RejectOrRun(input_rejection(w))
  /\ delays' = <<0>>
  /\ writers' = << <<>> >>
  /\ last_gw' = <<"none">>
  /\ only_err' = <<TRUE>>
  /\ only_valid' = <<TRUE>>
  /\ UNCHANGED <<concurrency_limit, results, set, idx>>
  /\ UNCHANGED pure_vars

\* the status of the match on the result (lines 113-128)
WordStatus(outcome) == IF outcome.ok THEN 200 ELSE status_code(outcome.kind)

\* the body of the match on the result (lines 113-128)
WordBody(outcome, word) ==
  IF outcome.ok THEN outcome.v
  ELSE ErrorResponse(outcome.msg, error_type_str(outcome.kind), word,
                     should_retry(outcome.kind))

\* attempt_word_inference returned: match result
RespondWord ==
  /\ hpc = "single"
  /\ tasks[1].pc = "done"
  /\ status' = WordStatus(tasks[1].outcome)
  /\ out' = <<WordBody(tasks[1].outcome, words[1])>>
  /\ hpc' = "responded"
  /\ UNCHANGED <<words, concurrency_limit, results, set, idx, tasks, calls, delays,
                 writers>>
  /\ UNCHANGED gw_hist
  /\ UNCHANGED pure_vars

NextWord ==
  \/ \E w \in WordRequests : ReceiveWord(w)
  \/ \E g \in WordGatewayResults : GatewayReturn(1, g)
  \/ RetryWake(1)
  \/ RespondWord

WordSpec == Init /\ [][NextWord]_vars

(***************************************************************************)
(* One call validator.validate_and_fix(json_value, word) on its own, as    *)
(* attempt_word_inference (line 312) and the unit tests make it.  The      *)
(* inputs are drawn from three families of gateway outputs: the top-level  *)
(* fields varied over a valid meaning, lists of meanings, and the synonyms *)
(* and antonyms of one meaning.                                            *)
(***************************************************************************)
\* bounds: the longest list of meanings and the longest synonyms list drawn
MaxInputMeanings == 2
MaxItems == 3

Lists(S, n) == UNION {[1..k -> S] : k \in 0..n}

\* the object o with key k set to val, or without key k when val is None
with_field(o, k, val) ==
  IF val = None THEN [x \in (DOMAIN o) \ {k} |-> o[x]] ELSE insert(o, k, val)

SurfaceWords == {"Surface", "test"}

WordFields == {None, Str("ignored"), Str("SURFACE"), Num(1)}

Phonetics ==
  {Str(""), Str("/"), Str("w3:d"), Str("/w3:d/"), Str("w3:d/"), Str("/w3:d"),
   Str("//w3:d//"), Str(" /w3:d/ "), Num(1)}

Difficulties ==
  {Str("beginner"), Str("intermediate"), Str("advanced"), Str("expert"),
   Str("Beginner"), Str(""), Num(3)}

Languages == {Str("english"), Str("spanish"), Num(0)}

TopLevelDocs ==
  {Obj(with_field(
         [baseForm |-> Str("test"), phonetic |-> ph, difficulty |-> d,
          language |-> l, meanings |-> Arr(<<Meaning("noun")>>)],
         "word", w)) :
     w \in WordFields, ph \in Phonetics, d \in Difficulties, l \in Languages}

\* a meaning whose translations lack the codes of the set langs
LackingTranslations(pos, langs) ==
  Obj(insert(Meaning(pos).o, "translations",
             Obj([k \in (DOMAIN Translations.o) \ langs |-> Str("x")])))

MeaningPool ==
  {Meaning("noun"), Meaning("Noun"), Meaning("VERB"), Meaning("foo"),
   LackingTranslations("noun", {"ar"}), LackingTranslations("adjective", {"es", "ru"}),
   Obj(with_field(Meaning("noun").o, "partOfSpeech", None)), Num(1)}

MeaningDocs == {Obj(Doc(ms)) : ms \in Lists(MeaningPool, MaxInputMeanings)}

TranslationDocs ==
  {Obj(Doc(<<LackingTranslations("noun", {lang})>>)) : lang \in DOMAIN Translations.o}

ItemPool == {Str("Alpha"), Str("alpha"), Str("BETA"), Str(" beta "), Str(" "), Num(1)}

\* a list value as the gateway may give it: an array of items
ItemLists == {Arr(a) : a \in Lists(ItemPool, MaxItems)}

\* the other field of the pair: absent, not an array, or the list of the tests
OtherLists == {None, Str("x"), Arr(<<Str("Opposite"), Str("opposite")>>)}

ListMeaning(syn, ant) ==
  Obj(with_field(with_field(Meaning("noun").o, "synonyms", syn), "antonyms", ant))

ListDocs ==
  {Obj(Doc(<<ListMeaning(syn, ant)>>)) : syn \in ItemLists, ant \in OtherLists}
    \cup {Obj(Doc(<<ListMeaning(syn, ant)>>)) : syn \in OtherLists, ant \in ItemLists}

\* outputs that are no object, lack a top-level field or break the schema
OddDocs == {Num(1), Arr(<<>>), MissingFieldDoc, SchemaBadDoc, EmptyMeaningsDoc}

\* outputs with a field of the wrong type next to meanings that break a rule
\* of the loop, or next to a missing field
WrongTypeDocs ==
  {Obj(insert(Doc(ms), f, Num(1))) :
     f \in {"baseForm", "language"},
     ms \in {<<>>, <<Meaning("noun"), Meaning("Noun")>>, <<Meaning("foo")>>,
             <<LackingTranslations("noun", {"ar"})>>}}
    \cup {Obj(with_field(SchemaBadDoc.o, "phonetic", None))}

\* meanings that break several rules of the loop at once
OrderPool ==
  {Meaning("noun"),
   Obj(with_field(Meaning("noun").o, "definition", None)),
   Obj(with_field(Meaning("foo").o, "definition", None)),
   Obj(with_field(LackingTranslations("verb", {"ar"}).o, "grammarTip", None)),
   Obj(with_field(Meaning("verb").o, "translations", None))}

OrderDocs == {Obj(Doc(ms)) : ms \in Lists(OrderPool, MaxInputMeanings)}

InputDocs ==
  TopLevelDocs \cup MeaningDocs \cup TranslationDocs \cup ListDocs \cup OddDocs
    \cup WrongTypeDocs \cup OrderDocs

InitValidator ==
  /\ InitHandlers
  /\ json_value \in InputDocs
  /\ req_word \in SurfaceWords
  /\ validated = None
  /\ IdleRun
  /\ IdleText
  /\ IdleSchema
  /\ IdleLimiter

\* validator.validate_and_fix(json_value, word)
Validate ==
  /\ json_value # None
  /\ validated = None
  /\ validated' = validate_and_fix(json_value, req_word)
  /\ UNCHANGED <<json_value, req_word>>
  /\ UNCHANGED handler_vars
  /\ UNCHANGED <<run_vars, text_vars, schema_vars, limiter_vars>>

NextValidator == Validate

ValidatorSpec == InitValidator /\ [][NextValidator]_vars

(***************************************************************************)
(* Auxiliary predicates of the properties.                                 *)
(***************************************************************************)
\* the pipeline of index i returned and the handler has taken its result
Joined(i) == tasks[i].pc = "done" /\ i \notin set

NoJoinError == \A i \in DOMAIN tasks : tasks[i].pc # "panicked"

\* pipelines started and not yet finished
InFlight == {i \in DOMAIN tasks : tasks[i].pc \in {"infer", "sleep"}}

IsFailureEntry(e, word, error_type, retry) ==
  /\ e # None
  /\ e.word = word
  /\ e.ok = FALSE
  /\ "error_type" \in DOMAIN e /\ e.error_type = error_type
  /\ "retry_suggested" \in DOMAIN e /\ e.retry_suggested = retry

\* e is the entry of words[i] with the outcome of the pipeline of index i
OwnEntry(e, i) ==
  /\ e # None
  /\ e.word = words[i]
  /\ e.ok = tasks[i].outcome.ok
  /\ IF tasks[i].outcome.ok
     THEN /\ "data" \in DOMAIN e
          /\ e.data = tasks[i].outcome.v
          /\ e.data.o["word"] = Str(words[i])
     ELSE /\ "error" \in DOMAIN e /\ e.error = tasks[i].outcome.msg
          /\ "error_type" \in DOMAIN e
          /\ e.error_type = error_type_str(tasks[i].outcome.kind)

(***************************************************************************)
(* C1: a batch of N words whose pipelines end in success or in an          *)
(* Inference, JsonParse or Validation failure (no join error) is answered  *)
(* with status 200 and an array of exactly N entries, the handler never    *)
(* fails on a missing slot, and for N = 0 nothing is spawned and no        *)
(* gateway call is made.                                                   *)
(***************************************************************************)
C1_BatchLength ==
  /\ hpc = "responded" =>
       /\ status = 200
       /\ Len(out) = N
       /\ \A p \in 1..N : out[p] # None /\ out[p].word = words[p]
  /\ hpc = "panicked" => ~NoJoinError
  /\ (hpc # "idle" /\ N = 0) =>
       /\ hpc \in {"drain", "responded"}
       /\ set = {}
       /\ DOMAIN calls = {}

C1_Witness ==
  /\ hpc = "responded"
  /\ NoJoinError
  /\ N = 2
  /\ out[1].ok
  /\ ~out[2].ok

(***************************************************************************)
(* C2: whatever the completion order, the slot of every index whose        *)
(* pipeline returned carries words[i] and the outcome of the pipeline that *)
(* ran on words[i], and the response is the array of the slots.            *)
(***************************************************************************)
C2_OrderPreserved ==
  /\ \A i \in 1..N : Joined(i) => OwnEntry(results[i], i)
  /\ hpc = "responded" =>
       /\ out = results
       /\ \A i \in 1..N : tasks[i].pc = "done" => OwnEntry(out[i], i)

\* a later index has completed and been stored while an earlier one still runs
C2_Witness ==
  \E i, j \in 1..N :
    /\ i < j
    /\ Joined(j)
    /\ results[j] # None
    /\ i \in InFlight
    /\ results[i] = None

(***************************************************************************)
(* C3: the number of pipelines started and not yet finished never exceeds  *)
(* the concurrency limit.                                                  *)
(***************************************************************************)
C3_ConcurrencyCap ==
  /\ Cardinality(InFlight) <= concurrency_limit
  /\ Cardinality(set) <= concurrency_limit

\* the pool is full while words are still waiting to be dispatched
C3_Witness ==
  /\ hpc = "backpressure"
  /\ idx < N
  /\ Cardinality(InFlight) = concurrency_limit

(***************************************************************************)
(* C4 (as claimed): when the task of index i ends in a join error, the     *)
(* batch still answers with all N slots filled, slot i is a failure of     *)
(* kind Internal for words[i], and every other slot holds the outcome of   *)
(* its own pipeline.                                                       *)
(***************************************************************************)
C4_JoinErrorIsInternal ==
  /\ hpc # "panicked"
  /\ hpc = "responded" =>
       \A i \in 1..N :
         IF tasks[i].pc = "panicked"
         THEN IsFailureEntry(out[i], words[i], "internal_error", TRUE)
         ELSE OwnEntry(out[i], i)

(***************************************************************************)
(* C5 (as claimed): every slot is written at most once, only by the        *)
(* completion of the pipeline of its own index, and exactly once by the    *)
(* time the response is built.                                             *)
(***************************************************************************)
C5_SlotsWrittenOnce ==
  /\ \A p \in DOMAIN writers :
       /\ Len(writers[p]) <= 1
       /\ \A k \in 1..Len(writers[p]) : writers[p][k] = p
  /\ hpc \in {"responded", "panicked"} =>
       \A p \in DOMAIN writers : Len(writers[p]) = 1

(***************************************************************************)
(* C6: the failure of a sibling never changes the outcome of a word: a     *)
(* pipeline whose gateway calls all returned the valid output ends in      *)
(* success, its slot reports ok = true, and by the time of the response    *)
(* every pipeline has run to its end.                                      *)
(***************************************************************************)
C6_FailureIsolation ==
  /\ \A i \in 1..N :
       (tasks[i].pc = "done" /\ only_valid[i]) =>
          /\ tasks[i].outcome.ok
          /\ i \notin set => (results[i] # None /\ results[i].ok = TRUE)
  /\ hpc = "responded" =>
       \A i \in 1..N :
         /\ tasks[i].pc \in {"done", "panicked"}
         /\ (tasks[i].pc = "done" /\ only_valid[i]) => out[i].ok = TRUE

\* the response holds a success next to the failure of a sibling
C6_Witness ==
  /\ hpc = "responded"
  /\ \E i, j \in 1..N :
       /\ i # j
       /\ tasks[i].pc = "done" /\ only_valid[i] /\ out[i].ok
       /\ tasks[j].pc = "done" /\ ~tasks[j].outcome.ok /\ ~out[j].ok

(***************************************************************************)
(* C7: a pipeline whose gateway calls all fail makes exactly 3 gateway     *)
(* calls and ends with kind Inference; its batch entry has ok = false,     *)
(* error_type = "inference_error" and retry_suggested = true.              *)
(***************************************************************************)
C7_AllFailInference ==
  \A i \in 1..N :
    /\ only_err[i] => calls[i] <= 3
    /\ (tasks[i].pc = "done" /\ only_err[i]) =>
         /\ calls[i] = 3
         /\ ~tasks[i].outcome.ok
         /\ tasks[i].outcome.kind = "Inference"
    /\ (Joined(i) /\ only_err[i]) =>
         IsFailureEntry(results[i], words[i], "inference_error", TRUE)

C7_Witness ==
  \E i \in 1..N :
    /\ Joined(i)
    /\ only_err[i]
    /\ calls[i] = 3
    /\ results[i].ok = FALSE

(***************************************************************************)
(* C8 (as claimed): when the first gateway call returns an output with two *)
(* meanings of the same partOfSpeech, the pipeline is rejected at once:    *)
(* one gateway call, no retry delay, error_type "validation_error" and     *)
(* retry_suggested false.                                                  *)
(***************************************************************************)
C8_DuplicateRejectedAtOnce ==
  \A i \in 1..N :
    (last_gw[i] = "dup" /\ tasks[i].attempt = 0) =>
       /\ tasks[i].pc = "done"
       /\ calls[i] = 1
       /\ delays[i] = 0
       /\ ~tasks[i].outcome.ok
       /\ error_type_str(tasks[i].outcome.kind) = "validation_error"
       /\ ~should_retry(tasks[i].outcome.kind)

(***************************************************************************)
(* C9: a pipeline makes at most 3 gateway calls, and once it has returned  *)
(* (Success or Failed) it makes no further gateway call and its outcome    *)
(* never changes.                                                          *)
(***************************************************************************)
C9_BoundedAndTerminal ==
  [][\A i \in DOMAIN tasks :
       /\ calls'[i] <= 3
       /\ tasks[i].pc = "done" =>
            /\ tasks'[i] = tasks[i]
            /\ calls'[i] = calls[i]
            /\ delays'[i] = delays[i]]_vars

\* a pipeline that used all its attempts, joined while the handler goes on
C9_Witness ==
  \E i \in 1..N : Joined(i) /\ calls[i] = 3 /\ tasks[i].attempt = MAX_RETRIES

(***************************************************************************)
(* C10: an output rejected for a missing required field or for a           *)
(* partOfSpeech outside the fixed categories ends the pipeline at that     *)
(* attempt with kind Validation, on attempt 1, 2 or 3: no delay is taken   *)
(* for it and no further gateway call is made.                             *)
(***************************************************************************)
C10_NonRetryableTerminates ==
  \A i \in 1..N :
    last_gw[i] \in {"missing", "badpos"} =>
       /\ tasks[i].pc = "done"
       /\ ~tasks[i].outcome.ok
       /\ tasks[i].outcome.kind = "Validation"
       /\ \/ Contains(tasks[i].outcome.msg, "Missing required field")
          \/ Contains(tasks[i].outcome.msg, "Invalid value for partOfSpeech")
       /\ ~Contains(tasks[i].outcome.msg, "attempts")
       /\ calls[i] = tasks[i].attempt + 1
       /\ delays[i] = tasks[i].attempt

\* the rejection happens on the third attempt, after two retries
C10_Witness ==
  \E i \in 1..N :
    /\ last_gw[i] = "badpos"
    /\ tasks[i].pc = "done"
    /\ tasks[i].attempt = 2
    /\ delays[i] = 2

(***************************************************************************)
(* C11 (as claimed): when the gateway returns an output whose meanings     *)
(* array is empty, the pipeline ends at that attempt with a Validation     *)
(* failure carrying the InsufficientMeanings message: no retry delay is    *)
(* taken for it and no further gateway call is made.                       *)
(***************************************************************************)
C11_EmptyMeaningsEndsPipeline ==
  (hpc # "idle" /\ last_gw[1] = "empty") =>
     /\ tasks[1].pc = "done"
     /\ ~tasks[1].outcome.ok
     /\ tasks[1].outcome.kind = "Validation"
     /\ tasks[1].outcome.msg = InsufficientMeaningsMsg
     /\ calls[1] = tasks[1].attempt + 1
     /\ delays[1] = tasks[1].attempt

(***************************************************************************)
(* Auxiliary predicates of the properties of one validator call.           *)
(***************************************************************************)
\* the meanings of a gateway output, none if it has no meanings array
MeaningsOf(v) ==
  IF is_object(v) /\ contains_key(v.o, "meanings") /\ is_array(v.o["meanings"])
  THEN v.o["meanings"].a
  ELSE <<>>

RequiredLangs == {required_langs[i] : i \in 1..Len(required_langs)}

\* m is a meaning whose translations object lacks a required language code
LacksTranslation(m) ==
  /\ is_object(m)
  /\ contains_key(m.o, "translations")
  /\ is_object(m.o["translations"])
  /\ ~(RequiredLangs \subseteq DOMAIN m.o["translations"].o)

SomeLacksTranslation(ms) == \E i \in 1..Len(ms) : LacksTranslation(ms[i])

\* the first meaning of ms that lacks a translation
FirstLacking(ms) ==
  CHOOSE i \in 1..Len(ms) :
    LacksTranslation(ms[i]) /\ \A j \in 1..(i - 1) : ~LacksTranslation(ms[j])

\* the first required code, in the order of required_langs, that m lacks
FirstLackingLang(m) ==
  required_langs[CHOOSE i \in 1..Len(required_langs) :
    /\ required_langs[i] \notin DOMAIN m.o["translations"].o
    /\ \A j \in 1..(i - 1) : required_langs[j] \in DOMAIN m.o["translations"].o]

\* the output v with every missing translation supplied
Completed(v) ==
  Obj(insert(v.o, "meanings",
    Arr([i \in 1..Len(MeaningsOf(v)) |->
      IF LacksTranslation(MeaningsOf(v)[i])
      THEN Obj(insert(MeaningsOf(v)[i].o, "translations", Translations))
      ELSE MeaningsOf(v)[i]])))

C14_BackendErrorIs500 ==
  (hpc = "responded" /\ tasks[1].pc = "done" /\ only_err[1]) => status = 500

(***************************************************************************)
(* C15: whenever validate_and_fix succeeds, the word field of the returned *)
(* entry is the caller's surface word, character for character, whether    *)
(* the gateway output had another word, a word in another case, a word     *)
(* that is no string, or no word at all.                                   *)
(***************************************************************************)
C15_WordIsSurfaceWord ==
  (validated # None /\ validated.ok) =>
     /\ contains_key(validated.v.o, "word")
     /\ validated.v.o["word"] = Str(req_word)

\* the gateway echoed the word in another case
C15_Witness ==
  /\ validated # None
  /\ validated.ok
  /\ req_word = "Surface"
  /\ contains_key(json_value.o, "word")
  /\ json_value.o["word"] = Str("SURFACE")
  /\ validated.v.o["word"] = Str("Surface")

(***************************************************************************)
(* C16: in a returned entry, for every meaning, synonyms and antonyms are  *)
(* arrays holding exactly the non-empty trimmed and lowercased forms of    *)
(* the input's string items, each once, ordered by first occurrence in the *)
(* input; ["Alpha","alpha","BETA"] becomes ["alpha","beta"], and a field   *)
(* that is absent (or is no array) becomes the empty array.                *)
(***************************************************************************)
\* the trimmed and lowercased form of a string item
Normalized(item) == to_lowercase(trim(item.s))

\* the position in a of the first string item whose normalized form is s
FirstIndex(a, s) ==
  CHOOSE i \in 1..Len(a) :
    /\ is_str(a[i]) /\ Normalized(a[i]) = s
    /\ \A j \in 1..(i - 1) : ~(is_str(a[j]) /\ Normalized(a[j]) = s)

IsRepairOf(fixed, a) ==
  /\ \A k \in 1..Len(fixed) :
       /\ is_str(fixed[k])
       /\ fixed[k].s # ""
       /\ \E i \in 1..Len(a) : is_str(a[i]) /\ Normalized(a[i]) = fixed[k].s
  /\ \A i \in 1..Len(a) :
       (is_str(a[i]) /\ Normalized(a[i]) # "") =>
          \E k \in 1..Len(fixed) : fixed[k].s = Normalized(a[i])
  /\ \A k, l \in 1..Len(fixed) :
       k < l => /\ fixed[k] # fixed[l]
                /\ FirstIndex(a, fixed[k].s) < FirstIndex(a, fixed[l].s)

\* the items of the list key of the input meaning m, none if it has no such array
InputList(m, key) ==
  IF contains_key(m.o, key) /\ is_array(m.o[key]) THEN m.o[key].a ELSE <<>>

C16_ListsNormalized ==
  (validated # None /\ validated.ok) =>
     \A i \in 1..Len(MeaningsOf(json_value)), key \in {"synonyms", "antonyms"} :
       /\ contains_key(MeaningsOf(validated.v)[i].o, key)
       /\ is_array(MeaningsOf(validated.v)[i].o[key])
       /\ IsRepairOf(MeaningsOf(validated.v)[i].o[key].a,
                     InputList(MeaningsOf(json_value)[i], key))
       /\ InputList(MeaningsOf(json_value)[i], key)
            = <<Str("Alpha"), Str("alpha"), Str("BETA")>>
          => MeaningsOf(validated.v)[i].o[key] = Arr(<<Str("alpha"), Str("beta")>>)

\* the lists of the unit test, and an absent field
C16_Witness ==
  /\ validated # None
  /\ validated.ok
  /\ json_value = Obj(Doc(<<ListMeaning(None, Arr(<<Str("Alpha"), Str("alpha"), Str("BETA")>>))>>))
  /\ MeaningsOf(validated.v)[1].o["antonyms"] = Arr(<<Str("alpha"), Str("beta")>>)
  /\ MeaningsOf(validated.v)[1].o["synonyms"] = Arr(<<>>)

(***************************************************************************)
(* C17 (as claimed): in a returned entry the phonetic is the input string  *)
(* (surrounding whitespace aside) with all its leading and trailing        *)
(* slashes removed, wrapped in one pair of slashes: it starts with exactly *)
(* one "/" and ends with exactly one "/"; "w3:d", "/w3:d/" and "w3:d/"     *)
(* all become "/w3:d/".                                                    *)
(***************************************************************************)
C17_PhoneticOnePair ==
  (/\ validated # None
   /\ validated.ok
   /\ has_str(json_value.o, "phonetic")) =>
     /\ validated.v.o["phonetic"]
          = Str("/" \o trim_matches(trim(json_value.o["phonetic"].s), "/") \o "/")
     /\ json_value.o["phonetic"] \in {Str("w3:d"), Str("/w3:d/"), Str("w3:d/")}
          => validated.v.o["phonetic"] = Str("/w3:d/")

(***************************************************************************)
(* C18 (as claimed): for every difficulty value of a gateway output, field *)
(* normalization leaves difficulty equal to one of beginner, intermediate  *)
(* and advanced: an accepted value is kept, any other value becomes        *)
(* "intermediate", and the value causes no error.                          *)
(***************************************************************************)
AcceptedDifficulties == {Str("beginner"), Str("intermediate"), Str("advanced")}

C18_DifficultyCoerced ==
  (/\ validated # None
   /\ is_object(json_value)
   /\ fix_basic_structure(json_value, req_word).ok) =>
     /\ fix_basic_structure(json_value, req_word).v.o["difficulty"]
          = IF json_value.o["difficulty"] \in AcceptedDifficulties
            THEN json_value.o["difficulty"]
            ELSE Str("intermediate")
     /\ validated.ok =>
          validated.v.o["difficulty"]
            = fix_basic_structure(json_value, req_word).v.o["difficulty"]
     /\ ~validated.ok => ~Contains(validated.err, "difficulty")

(***************************************************************************)
(* C19: the single-word response reports success only with the complete    *)
(* repaired output of one attempt, the last one: that output passed        *)
(* validate_and_fix, each of its meanings passed every check, and the      *)
(* entry holds all of them, one for one.  When a meaning of the last       *)
(* output fails a check the response is a failure, and a failure response  *)
(* carries the error fields only: no meaning of a rejected output appears. *)
(***************************************************************************)
ErrorFields == {"error", "error_type", "word", "retry_suggested"}

\* the normalized partOfSpeech values of the first n meanings of the entry v
PosBefore(v, n) == {MeaningsOf(v)[j].o["partOfSpeech"].s : j \in 1..n}

\* the entry is the repair of the complete output given: every meaning of
\* given passes the checks of the loop and is in the entry at its place
IsWholeRepair(entry, given, word) ==
  /\ validate_and_fix(given, word) = Ok(entry)
  /\ Len(MeaningsOf(given)) > 0
  /\ Len(MeaningsOf(entry)) = Len(MeaningsOf(given))
  /\ \A i \in 1..Len(MeaningsOf(given)) :
       /\ fix_meaning(MeaningsOf(given)[i], i - 1, PosBefore(entry, i - 1)).ok
       /\ fix_meaning(MeaningsOf(given)[i], i - 1, PosBefore(entry, i - 1)).v
            = MeaningsOf(entry)[i]

\* some meaning of the output given fails a check of the loop on its own
SomeMeaningFails(given) ==
  \E i \in 1..Len(MeaningsOf(given)) : ~fix_meaning(MeaningsOf(given)[i], i - 1, {}).ok

C19_AllOrNothing ==
  (hpc = "responded" /\ tasks[1].pc = "done") =>
     /\ (status = 200) = tasks[1].outcome.ok
     /\ status = 200 =>
          /\ Gateway[last_gw[1]].ok
          /\ Gateway[last_gw[1]].bytes.json
          /\ IsWholeRepair(out[1], Gateway[last_gw[1]].bytes.value, words[1])
     /\ status # 200 => DOMAIN out[1] = ErrorFields
     /\ (/\ Gateway[last_gw[1]].ok
         /\ Gateway[last_gw[1]].bytes.json
         /\ SomeMeaningFails(Gateway[last_gw[1]].bytes.value)) => status # 200

\* an output with an acceptable and an unacceptable meaning has been answered
C19_Witness ==
  /\ hpc = "responded"
  /\ tasks[1].pc = "done"
  /\ last_gw[1] = "partial"
  /\ tasks[1].attempt = 1
  /\ status = 422
  /\ DOMAIN out[1] = ErrorFields

(***************************************************************************)
(* C20: whenever validate_and_fix succeeds, the returned entry has at      *)
(* least one meaning, every partOfSpeech is a string of the 13 fixed       *)
(* lowercase categories, equal to the lowercased input value, and no two   *)
(* meanings have the same partOfSpeech: an output with "noun" and "Noun"   *)
(* is never returned.                                                      *)
(***************************************************************************)
C20_PartOfSpeechDistinct ==
  /\ Cardinality(valid_pos) = 13
  /\ (validated # None /\ validated.ok) =>
       /\ Len(MeaningsOf(validated.v)) > 0
       /\ Len(MeaningsOf(validated.v)) = Len(MeaningsOf(json_value))
       /\ \A i \in 1..Len(MeaningsOf(validated.v)) :
            /\ has_str(MeaningsOf(validated.v)[i].o, "partOfSpeech")
            /\ MeaningsOf(validated.v)[i].o["partOfSpeech"].s \in valid_pos
            /\ MeaningsOf(validated.v)[i].o["partOfSpeech"].s
                 = to_lowercase(MeaningsOf(json_value)[i].o["partOfSpeech"].s)
       /\ \A i, j \in 1..Len(MeaningsOf(validated.v)) :
            i # j => MeaningsOf(validated.v)[i].o["partOfSpeech"]
                       # MeaningsOf(validated.v)[j].o["partOfSpeech"]

\* two categories written in upper and mixed case are returned in lowercase
C20_Witness ==
  /\ validated # None
  /\ validated.ok
  /\ json_value = Obj(Doc(<<Meaning("Noun"), Meaning("VERB")>>))
  /\ MeaningsOf(validated.v)[1].o["partOfSpeech"] = Str("noun")
  /\ MeaningsOf(validated.v)[2].o["partOfSpeech"] = Str("verb")

(***************************************************************************)
(* C21 (as claimed): the retry_suggested flag of a failed word agrees with *)
(* the classification of its failure: true for an Inference failure, for a *)
(* JsonParse failure and for a Validation failure that was retried until   *)
(* the attempts ran out, false for a Validation failure that ended the     *)
(* pipeline at once (missing required field, invalid value).               *)
(***************************************************************************)
C21_RetrySuggestedAgrees ==
  (hpc = "responded" /\ tasks[1].pc = "done" /\ ~tasks[1].outcome.ok) =>
     out[1].retry_suggested
       = \/ tasks[1].outcome.kind \in {"Inference", "JsonParse"}
         \/ /\ tasks[1].outcome.kind = "Validation"
            /\ ~non_retryable(tasks[1].outcome.msg)

(***************************************************************************)
(* One word sent to both endpoints: as POST /v1/word and as the batch of   *)
(* this one word to POST /v1/words, against a backend that returns         *)
(* gateway_script[k] to the k-th infer_json call of a pipeline.  Each      *)
(* request is one step here, from the request to the response; the run     *)
(* records the gateway calls made, the status and the body.                *)
(***************************************************************************)
\* the gateway results of the scripts
ScriptResults == {"err", "text", "valid", "dup", "missing", "schema"}

Scripts == [1..(MAX_RETRIES + 1) -> ScriptResults]

\* the InferParams of the configuration (the defaults, and other values)
ParamsPool ==
  {[max_tokens |-> 1024, temp |-> "0.4", top_p |-> "0.9", min_p |-> "0.05",
    repeat_penalty |-> "1.1"],
   [max_tokens |-> 256, temp |-> "0.0", top_p |-> "1.0", min_p |-> "0.0",
    repeat_penalty |-> "1.0"]}

SystemPrompt ==
  "You are an expert linguist and lexicographer. Produce a single valid JSON object only."

\* the PromptParts built before the loop (lines 267-271)
PromptParts(word) == [system |-> SystemPrompt, user_word |-> word]

\* mutant: a retry asks for more tokens than the request was configured with
infer_json_args_MoreTokens(prompt, params, attempt) ==
  [prompt |-> prompt,
   params |-> [params EXCEPT !.max_tokens = @ + attempt * 256]]

\* the arguments of backend.infer_json(prompt.clone(), &params) in the
\* iteration `attempt` (line 277)
infer_json_args(prompt, params, attempt) ==
  [prompt |-> prompt, params |-> params]

RECURSIVE attempt_word_inference(_, _, _, _)

\* the end of one iteration of the loop: continue, or return
loop_step(word, params, script, attempt, step) ==
  IF step.retry
  THEN attempt_word_inference(word, params, script, attempt + 1)
  ELSE [calls |-> SubSeq(script, 1, attempt + 1),
        sent |-> [k \in 1..(attempt + 1) |->
                    infer_json_args(PromptParts(word), params, k - 1)],
        result |-> step.result]

\* attempt_word_inference from the iteration `attempt` on: the results of the
\* gateway calls it makes, the arguments it passes to them and the Result it
\* returns
attempt_word_inference(word, params, script, attempt) ==
  IF attempt > MAX_RETRIES
  THEN [calls |-> SubSeq(script, 1, MAX_RETRIES + 1),
        sent |-> [k \in 1..(MAX_RETRIES + 1) |->
                    infer_json_args(PromptParts(word), params, k - 1)],
        result |-> Failure("Internal", "Unexpected end of retry loop")]
  ELSE loop_step(word, params, script, attempt,
                 attempt_step(attempt, Gateway[script[attempt + 1]], word))

\* the response of /v1/word to the Result of the pipeline
word_response(word, run) ==
  [calls |-> run.calls, sent |-> run.sent, status |-> WordStatus(run.result),
   body |-> WordBody(run.result, word)]

\* the /v1/word handler
post_word(word, params, script) ==
  IF input_rejection(word) # None
  THEN [calls |-> <<>>, sent |-> <<>>, status |-> 400, body |-> input_rejection(word)]
  ELSE word_response(word, attempt_word_inference(word, params, script, 0))

\* the entry written for the joined pipeline of the only word
batch_entry(word, result) ==
  IF result.ok THEN OkEntry(word, result.v)
  ELSE ErrEntry(word, result.kind, result.msg)

\* the response of /v1/words to the Result of the only pipeline
words_response(word, run) ==
  [calls |-> run.calls, sent |-> run.sent, status |-> 200,
   body |-> <<batch_entry(word, run.result)>>]

\* the /v1/words handler on req.words = [word]
post_words(word, params, script) ==
  words_response(word, attempt_word_inference(word, params, script, 0))

InitEndpoints ==
  /\ InitHandlers
  /\ json_value = None
  /\ validated = None
  /\ req_word \in WordRequests
  /\ gateway_script \in Scripts
  /\ infer_params \in ParamsPool
  /\ single_run = None
  /\ batch_run = None
  /\ IdleText
  /\ IdleSchema
  /\ IdleLimiter

PostWord ==
  /\ gateway_script # <<>>
  /\ single_run = None
  /\ single_run' = post_word(req_word, infer_params, gateway_script)
  /\ UNCHANGED <<gateway_script, infer_params, batch_run>>
  /\ UNCHANGED handler_vars
  /\ UNCHANGED <<call_vars, text_vars, schema_vars, limiter_vars>>

PostWords ==
  /\ gateway_script # <<>>
  /\ batch_run = None
  /\ batch_run' = post_words(req_word, infer_params, gateway_script)
  /\ UNCHANGED <<gateway_script, infer_params, single_run>>
  /\ UNCHANGED handler_vars
  /\ UNCHANGED <<call_vars, text_vars, schema_vars, limiter_vars>>

NextEndpoints == PostWord \/ PostWords

EndpointSpec == InitEndpoints /\ [][NextEndpoints]_vars

\* both endpoints have answered
BothAnswered == single_run # None /\ batch_run # None

\* the two runs made the same gateway calls and report the same outcome
SameRun ==
  /\ single_run.calls = batch_run.calls
  /\ batch_run.body[1].ok = (single_run.status = 200)
  /\ batch_run.body[1].ok => batch_run.body[1].data = single_run.body
  /\ ~batch_run.body[1].ok =>
       batch_run.body[1].error_type = single_run.body.error_type

(***************************************************************************)
(* C22 (as claimed): for every word and every gateway behaviour the        *)
(* single-word endpoint and a batch entry for the same word make the same  *)
(* sequence of gateway calls and report the same outcome: the same entry   *)
(* on success, the same error kind on failure.                             *)
(***************************************************************************)
C22_SamePipeline == BothAnswered => SameRun

\* the gateway results whose failure is retried: a gateway error, bytes that
\* are not JSON, an output that only the schema rejects
RetryableResults == {"err", "text", "schema"}

(***************************************************************************)
(* C23: when an attempt before the third ends in a retryable failure       *)
(* (gateway error, bytes that are not JSON, generic schema violation) the  *)
(* pipeline takes the retry delay exactly once and its next step starts    *)
(* the next attempt with a gateway call; a delay is taken at no other      *)
(* step, so none precedes the first attempt and none follows the attempt   *)
(* that ends the pipeline.                                                 *)
(***************************************************************************)
C23_DelayOncePerRetry ==
  [][hpc = "single" =>
       /\ (/\ tasks[1].pc = "infer"
           /\ tasks'[1].pc # "infer"
           /\ last_gw'[1] \in RetryableResults
           /\ tasks[1].attempt < MAX_RETRIES) =>
             /\ tasks'[1].pc = "sleep"
             /\ tasks'[1].attempt = tasks[1].attempt
             /\ delays'[1] = delays[1] + 1
             /\ calls'[1] = calls[1]
       /\ tasks[1].pc = "sleep" =>
             /\ tasks'[1].pc = "infer"
             /\ tasks'[1].attempt = tasks[1].attempt + 1
             /\ calls'[1] = calls[1] + 1
             /\ delays'[1] = delays[1]
       /\ delays'[1] # delays[1] =>
             tasks[1].pc = "infer" /\ tasks'[1].pc = "sleep"
       /\ tasks[1].pc = "infer" => delays[1] = tasks[1].attempt
       /\ tasks'[1].pc = "done" => delays'[1] = tasks'[1].attempt]_vars

\* the third attempt has started after a schema violation and two delays
C23_Witness ==
  /\ hpc = "single"
  /\ tasks[1].pc = "infer"
  /\ tasks[1].attempt = MAX_RETRIES
  /\ last_gw[1] = "schema"
  /\ delays[1] = 2
  /\ calls[1] = 3

\* the kind of the failure of one attempt on its own: of the gateway result
\* g for the word ("none" when the attempt succeeds)
FailureKind(g, word) ==
  IF ~Gateway[g].ok THEN "Inference"
  ELSE IF ~from_slice(Gateway[g].bytes).ok THEN "JsonParse"
  ELSE IF ~validate_and_fix(from_slice(Gateway[g].bytes).v, word).ok THEN "Validation"
  ELSE "none"

\* the run made all 3 attempts and failed
Exhausted(run) == Len(run.calls) = MAX_RETRIES + 1 /\ run.status # 200

(***************************************************************************)
(* C24: a pipeline that fails on its third attempt reports the kind of the *)
(* failure of that third attempt, whatever the kinds of the failures of    *)
(* the first two attempts: on /v1/word as the error_type and status of the *)
(* response, on /v1/words as the error_type of the entry.                  *)
(***************************************************************************)
C24_LastAttemptKind ==
  /\ (single_run # None /\ Exhausted(single_run)) =>
        /\ single_run.body.error_type
             = error_type_str(FailureKind(single_run.calls[3], req_word))
        /\ single_run.status = status_code(FailureKind(single_run.calls[3], req_word))
  /\ (batch_run # None /\ Len(batch_run.calls) = MAX_RETRIES + 1
        /\ ~batch_run.body[1].ok) =>
        batch_run.body[1].error_type
          = error_type_str(FailureKind(batch_run.calls[3], req_word))

\* gateway error, then unparsable bytes, then a schema violation: Validation
C24_Witness ==
  /\ single_run # None
  /\ single_run.calls = <<"err", "text", "schema">>
  /\ single_run.status = 422
  /\ single_run.body.error_type = "validation_error"
  /\ Contains(single_run.body.error, "Validation failed after 3 attempts")

\* the gateway output is an object that has every required top-level field
HasRequiredFields(v) ==
  is_object(v) /\ FirstMissing(v.o, required_fields, 1) = ""

(***************************************************************************)
(* C25 (as claimed): the normalization of language, difficulty and         *)
(* phonetic never produces an error: whatever JSON values these three      *)
(* fields hold, an object that has all required top-level fields leaves    *)
(* fix_basic_structure without an error.                                   *)
(***************************************************************************)
C25_NormalizationNeverErrors ==
  (validated # None /\ HasRequiredFields(json_value)) =>
     fix_basic_structure(json_value, req_word).ok

(***************************************************************************)
(* C26 (as claimed): after the field normalization the language field is   *)
(* the constant "english", whatever value the gateway output had there: a  *)
(* different string or a JSON value that is not a string.                  *)
(***************************************************************************)
C26_LanguageForced ==
  (validated # None /\ fix_basic_structure(json_value, req_word).ok) =>
     fix_basic_structure(json_value, req_word).v.o["language"] = Str("english")

(***************************************************************************)
(* LlamaBackend::extract_json_bytes on its own, as infer_json calls it on  *)
(* the generated text (line 225).  The texts are ASCII, so that the byte   *)
(* offsets of char_indices are the character positions.                    *)
(***************************************************************************)
MaxTextLen == 5

TextChars == {"{", "}", "a"}

RECURSIVE Texts(_)
\* the texts of at most n characters
Texts(n) ==
  IF n = 0 THEN {""}
  ELSE Texts(n - 1) \cup {t \o c : t \in Texts(n - 1), c \in TextChars}

Some(x) == [some |-> x]

RECURSIVE scan_braces(_, _, _, _)
\* the for loop from the character i on (1-based), with the current values
\* of depth and start (0 for None)
scan_braces(s, i, depth, start) ==
  IF i > Len(s) THEN None
  ELSE IF SubSeq(s, i, i) = "{"
  THEN scan_braces(s, i + 1, depth + 1, IF depth = 0 THEN i ELSE start)
  ELSE IF SubSeq(s, i, i) = "}"
  THEN IF depth - 1 = 0 /\ start # 0
       THEN Some(SubSeq(s, start, i))
       ELSE scan_braces(s, i + 1, depth - 1, start)
  ELSE scan_braces(s, i + 1, depth, start)

extract_json_bytes(s) == scan_braces(s, 1, 0, 0)

InitExtract ==
  /\ InitHandlers
  /\ IdleCall
  /\ IdleRun
  /\ IdleSchema
  /\ IdleLimiter
  /\ generated \in Texts(MaxTextLen)
  /\ extracted = NotRun

\* Self::extract_json_bytes(&out)
Extract ==
  /\ extracted = NotRun
  /\ extracted' = extract_json_bytes(generated)
  /\ UNCHANGED generated
  /\ UNCHANGED handler_vars
  /\ UNCHANGED <<call_vars, run_vars, schema_vars, limiter_vars>>

NextExtract == Extract

ExtractSpec == InitExtract /\ [][NextExtract]_vars

RECURSIVE closing_from(_, _, _)
\* the position of the '}' that closes d open braces, scanning s from j on
\* (0 when there is none)
closing_from(s, j, d) ==
  IF j > Len(s) THEN 0
  ELSE IF SubSeq(s, j, j) = "{" THEN closing_from(s, j + 1, d + 1)
  ELSE IF SubSeq(s, j, j) = "}"
  THEN IF d = 1 THEN j ELSE closing_from(s, j + 1, d - 1)
  ELSE closing_from(s, j + 1, d)

\* the position of the '}' matching the '{' at position i (0: unmatched)
Matching(s, i) == closing_from(s, i + 1, 1)

IsMatchedOpen(s, i) == SubSeq(s, i, i) = "{" /\ Matching(s, i) # 0

ContainsBalanced(s) == \E i \in 1..Len(s) : IsMatchedOpen(s, i)

\* the first '{' of s that has a matching '}'
FirstMatchedOpen(s) ==
  CHOOSE i \in 1..Len(s) :
    IsMatchedOpen(s, i) /\ \A j \in 1..(i - 1) : ~IsMatchedOpen(s, j)

(***************************************************************************)
(* C27 (as claimed): for every generated text that contains a              *)
(* brace-balanced substring, extract_json_bytes returns exactly the first  *)
(* one: from the first '{' that has a matching '}' to that matching '}',   *)
(* whatever surrounds it, stray braces included.                           *)
(***************************************************************************)
C27_FirstBalancedExtracted ==
  (extracted # NotRun /\ ContainsBalanced(generated)) =>
     extracted = Some(SubSeq(generated, FirstMatchedOpen(generated),
                             Matching(generated, FirstMatchedOpen(generated))))

\* the partOfSpeech of the meaning m in lowercase ("" when it has none)
LowerPos(m) ==
  IF is_object(m) /\ has_str(m.o, "partOfSpeech")
  THEN to_lowercase(m.o["partOfSpeech"].s) ELSE ""

\* the meaning m lacks a required field of a meaning
LacksMeaningField(m) ==
  /\ is_object(m)
  /\ \/ ~has_str(m.o, "partOfSpeech")
     \/ \E k \in 1..Len(required_meaning_fields) :
          ~contains_key(m.o, required_meaning_fields[k])

\* the output v breaks one of the named rules: a required field is missing,
\* meanings is empty, a partOfSpeech is outside the categories or repeated,
\* a translation key is missing
ViolatesBusinessRule(v) ==
  /\ is_object(v)
  /\ \/ ~HasRequiredFields(v)
     \/ ~is_array(v.o["meanings"])
     \/ Len(MeaningsOf(v)) = 0
     \/ \E i \in 1..Len(MeaningsOf(v)) :
          \/ LacksMeaningField(MeaningsOf(v)[i])
          \/ LacksTranslation(MeaningsOf(v)[i])
          \/ LowerPos(MeaningsOf(v)[i]) # "" /\ LowerPos(MeaningsOf(v)[i]) \notin valid_pos
          \/ \E j \in 1..(i - 1) :
               LowerPos(MeaningsOf(v)[i]) # ""
                 /\ LowerPos(MeaningsOf(v)[j]) = LowerPos(MeaningsOf(v)[i])

IsSchemaError(msg) == Contains(msg, "Schema validation failed")

\* msg is the message of one of the named rules
IsBusinessRuleError(msg) ==
  \/ Contains(msg, "Missing required field: ")
  \/ msg = InsufficientMeaningsMsg
  \/ Contains(msg, "Invalid value for partOfSpeech: ")
  \/ Contains(msg, "Duplicate part of speech: ")

\* the typed checks of steps 1 and 2 that are not among the named rules
\* pass: phonetic is a string and every meaning is an object
PassesTypedChecks(v) ==
  /\ is_str(v.o["phonetic"])
  /\ \A i \in 1..Len(MeaningsOf(v)) : is_object(MeaningsOf(v)[i])

FirstLackingField(m) ==
  required_meaning_fields[
    CHOOSE k \in 1..Len(required_meaning_fields) :
      /\ ~contains_key(m.o, required_meaning_fields[k])
      /\ \A l \in 1..(k - 1) : contains_key(m.o, required_meaning_fields[l])]

\* the error that the meaning of Rust index i - 1 of ms deserves on its own,
\* given the meanings before it ("" when it breaks no rule): the
\* partOfSpeech checks first, then the presence of the required fields, then
\* the translation keys
MeaningViolation(ms, i) ==
  IF ~is_object(ms[i])
  THEN "Meaning " \o IdxStr(i - 1) \o " must be an object"
  ELSE IF LowerPos(ms[i]) = ""
  THEN "Missing required field: partOfSpeech in meaning " \o IdxStr(i - 1)
  ELSE IF LowerPos(ms[i]) \notin valid_pos
  THEN "Invalid value for partOfSpeech: '" \o ms[i].o["partOfSpeech"].s
         \o "' is not a valid part of speech"
  ELSE IF \E j \in 1..(i - 1) : LowerPos(ms[j]) = LowerPos(ms[i])
  THEN "Duplicate part of speech: " \o ms[i].o["partOfSpeech"].s
  ELSE IF \E k \in 1..Len(required_meaning_fields) :
            ~contains_key(ms[i].o, required_meaning_fields[k])
  THEN "Missing required field: " \o FirstLackingField(ms[i])
         \o " in meaning " \o IdxStr(i - 1)
  ELSE IF LacksTranslation(ms[i])
  THEN "Missing required field: translation for '" \o FirstLackingLang(ms[i])
         \o "' in meaning " \o IdxStr(i - 1)
  ELSE ""

\* the lowest index of a meaning of ms that breaks a rule
FirstViolating(ms) ==
  CHOOSE i \in 1..Len(ms) :
    /\ MeaningViolation(ms, i) # ""
    /\ \A j \in 1..(i - 1) : MeaningViolation(ms, j) = ""

(***************************************************************************)
(* C29: the meanings are checked in array order and the first violation    *)
(* ends the validation: of an output that passes step 1 and in which some  *)
(* meaning breaks a rule, the error reported is the one of the             *)
(* lowest-index violating meaning, and within that meaning the             *)
(* partOfSpeech checks come before the presence of the required fields,    *)
(* which comes before the translation keys.                                *)
(***************************************************************************)
C29_FirstViolationReported ==
  (/\ validated # None
   /\ fix_basic_structure(json_value, req_word).ok
   /\ is_array(json_value.o["meanings"])
   /\ \E i \in 1..Len(MeaningsOf(json_value)) :
        MeaningViolation(MeaningsOf(json_value), i) # "") =>
     validated = Err(MeaningViolation(MeaningsOf(json_value),
                                      FirstViolating(MeaningsOf(json_value))))

\* meaning 0 lacks its definition and meaning 1 repeats its partOfSpeech
C29_Witness ==
  /\ json_value = Obj(Doc(<<Obj(with_field(Meaning("noun").o, "definition", None)),
                            Meaning("noun")>>))
  /\ validated = Err("Missing required field: definition in meaning 0")

(***************************************************************************)
(* The process as to the schema: callers of validator.validate_and_fix     *)
(* (the pipelines share one Arc<Validator> and run on the worker threads   *)
(* of the runtime), one after another and at the same time.  A call is     *)
(* split at the two events of apply_schema_validation: the compilation     *)
(* JSONSchema::options().compile(&SCHEMA_VALUE), whose first dereference   *)
(* of the Lazy static parses the schema text, and compiled.validate(v).    *)
(*   callers[c].pc    "idle", "compile" (steps 1 and 2 passed), "validate" *)
(*   callers[c].v     the value after steps 1 and 2                        *)
(*   callers[c].done  the calls of c that have returned                    *)
(***************************************************************************)
MaxCallers == 2

MaxValidations == 2

SchemaDocs == {ValidDoc, DupPosDoc, SchemaBadDoc}

InitSchema ==
  /\ InitHandlers
  /\ IdleCall
  /\ IdleRun
  /\ IdleText
  /\ IdleLimiter
  /\ callers = [c \in 1..MaxCallers |->
                  [pc |-> "idle", v |-> None, done |-> 0, result |-> NotRun]]
  /\ compilations = 0
  /\ schema_value_inits = 0

\* steps 1 and 2 gave r: return its error, or go on to step 3
after_steps(c, r) ==
  IF r.ok
  THEN callers' = [callers EXCEPT ![c].pc = "compile", ![c].v = r.v]
  ELSE callers' = [callers EXCEPT ![c].done = @ + 1, ![c].result = r]

\* the caller c calls validate_and_fix(doc, "test"): steps 1 and 2
BeginValidation(c, doc) ==
  /\ callers[c].pc = "idle"
  /\ callers[c].done < MaxValidations
  /\ after_steps(c, then_meanings(fix_basic_structure(doc, "test")))
  /\ UNCHANGED <<compilations, schema_value_inits>>
  /\ UNCHANGED handler_vars
  /\ UNCHANGED <<call_vars, run_vars, text_vars, limiter_vars>>

\* JSONSchema::options().with_draft(..).compile(&SCHEMA_VALUE): the Lazy is
\* initialised by the first dereference only
Compile(c) ==
  /\ callers[c].pc = "compile"
  /\ compilations' = compilations + 1
  /\ schema_value_inits' = IF schema_value_inits = 0 THEN 1 ELSE schema_value_inits
  /\ callers' = [callers EXCEPT ![c].pc = "validate"]
  /\ UNCHANGED handler_vars
  /\ UNCHANGED <<call_vars, run_vars, text_vars, limiter_vars>>

\* compiled.validate(v) and the return of validate_and_fix
FinishValidation(c) ==
  /\ callers[c].pc = "validate"
  /\ callers' = [callers EXCEPT ![c].pc = "idle", ![c].v = None, ![c].done = @ + 1,
                                ![c].result = schema_result(callers[c].v,
                                                            schema_errors(callers[c].v))]
  /\ UNCHANGED <<compilations, schema_value_inits>>
  /\ UNCHANGED handler_vars
  /\ UNCHANGED <<call_vars, run_vars, text_vars, limiter_vars>>

NextSchema ==
  \/ \E c \in 1..MaxCallers, doc \in SchemaDocs : BeginValidation(c, doc)
  \/ \E c \in 1..MaxCallers : Compile(c)
  \/ \E c \in 1..MaxCallers : FinishValidation(c)

SchemaSpec == InitSchema /\ [][NextSchema]_vars

(***************************************************************************)
(* C30 (as claimed): the declared schema is compiled at most once per      *)
(* process: after any number of sequential or concurrent validations the   *)
(* number of schema compilations is at most 1.                             *)
(***************************************************************************)
C30_CompiledOnce == compilations <= 1

\* what every gateway call of a pipeline for the word is to receive
ExpectedArgs(word, params) ==
  [prompt |-> [system |-> SystemPrompt, user_word |-> word], params |-> params]

(***************************************************************************)
(* C31: every gateway call of one pipeline, the first attempt and each     *)
(* retry, receives the same prompt (the system instruction and the         *)
(* caller's word as it was sent, untrimmed) and the generation parameters  *)
(* the routes were configured with, one call per gateway result consumed;  *)
(* a failed attempt changes neither.                                       *)
(***************************************************************************)
C31_SamePromptAndParams ==
  /\ single_run # None =>
       /\ Len(single_run.sent) = Len(single_run.calls)
       /\ \A k \in 1..Len(single_run.sent) :
            single_run.sent[k] = ExpectedArgs(req_word, infer_params)
  /\ batch_run # None =>
       /\ Len(batch_run.sent) = Len(batch_run.calls)
       /\ \A k \in 1..Len(batch_run.sent) :
            batch_run.sent[k] = ExpectedArgs(req_word, infer_params)

\* three calls for a word with surrounding blanks, after two failed attempts
C31_Witness ==
  /\ single_run # None
  /\ req_word = " Word "
  /\ single_run.calls = <<"err", "text", "valid">>
  /\ Len(single_run.sent) = 3
  /\ single_run.sent[3].prompt.user_word = " Word "
  /\ single_run.status = 200

(***************************************************************************)
(* The inference gateway: LlamaBackend::new creates the Semaphore          *)
(* `limiter` and every infer_json call, from any request, acquires one     *)
(* permit before it generates and holds it in the guard _permit until the  *)
(* function is left: by Ok, by an error of the ? operator, or by a panic   *)
(* that unwinds through it.                                                *)
(*   gen_calls[c].pc    "idle", "acquire" (awaiting limiter.acquire()),    *)
(*                      "generate" (holding a permit)                      *)
(*   gen_calls[c].last  how the latest call of c ended                     *)
(***************************************************************************)
MaxGenCalls == 3

MaxInferConcurrency == 2

\* values of num_cpus::get(): below, and above, the cap of 8
CpuCounts == {1, 2, 16}

\* the permits of the limiter (LlamaBackend::new, lines 59-63)
permits(ic, cpus) ==
  IF ic > 0
  THEN (IF ic > 1 THEN ic ELSE 1)
  ELSE (IF (IF cpus > 1 THEN cpus ELSE 1) < 8
        THEN (IF cpus > 1 THEN cpus ELSE 1) ELSE 8)

InitGateway ==
  /\ InitHandlers
  /\ IdleCall
  /\ IdleRun
  /\ IdleText
  /\ IdleSchema
  /\ infer_concurrency \in 0..MaxInferConcurrency
  /\ num_cpus \in CpuCounts
  /\ limiter = permits(infer_concurrency, num_cpus)
  /\ gen_calls = [c \in 1..MaxGenCalls |-> [pc |-> "idle", last |-> "none"]]

\* a pipeline calls backend.infer_json and awaits a permit
InferJson(c) ==
  /\ gen_calls[c].pc = "idle"
  /\ gen_calls' = [gen_calls EXCEPT ![c].pc = "acquire"]
  /\ UNCHANGED <<infer_concurrency, num_cpus, limiter>>
  /\ UNCHANGED handler_vars
  /\ UNCHANGED <<call_vars, run_vars, text_vars, schema_vars>>

\* self.inner.limiter.acquire().await completes
Acquire(c) ==
  /\ gen_calls[c].pc = "acquire"
  /\ limiter > 0
  /\ limiter' = limiter - 1
  /\ gen_calls' = [gen_calls EXCEPT ![c].pc = "generate"]
  /\ UNCHANGED <<infer_concurrency, num_cpus>>
  /\ UNCHANGED handler_vars
  /\ UNCHANGED <<call_vars, run_vars, text_vars, schema_vars>>

\* mutant: the permit of a call that ends with an error is not given back
Leave_LeakOnError(c, how) ==
  /\ gen_calls[c].pc = "generate"
  /\ limiter' = IF how = "err" THEN limiter ELSE limiter + 1
  /\ gen_calls' = [gen_calls EXCEPT ![c].pc = "idle", ![c].last = how]
  /\ UNCHANGED <<infer_concurrency, num_cpus>>
  /\ UNCHANGED handler_vars
  /\ UNCHANGED <<call_vars, run_vars, text_vars, schema_vars>>

\* the call leaves infer_json (how: "ok", "err" of a ?, or "panic"); the
\* guard _permit is dropped
Leave(c, how) ==
  /\ gen_calls[c].pc = "generate"
  /\ limiter' = limiter + 1
  /\ gen_calls' = [gen_calls EXCEPT ![c].pc = "idle", ![c].last = how]
  /\ UNCHANGED <<infer_concurrency, num_cpus>>
  /\ UNCHANGED handler_vars
  /\ UNCHANGED <<call_vars, run_vars, text_vars, schema_vars>>

NextGateway ==
  \/ \E c \in 1..MaxGenCalls : InferJson(c)
  \/ \E c \in 1..MaxGenCalls : Acquire(c)
  \/ \E c \in 1..MaxGenCalls, how \in {"ok", "err", "panic"} : Leave(c, how)

GatewaySpec == InitGateway /\ [][NextGateway]_vars

\* the calls that are generating
Generating == {c \in DOMAIN gen_calls : gen_calls[c].pc = "generate"}

\* the permit count as configured: INFER_CONCURRENCY when positive,
\* otherwise min(8, CPU count)
PermitCount ==
  IF infer_concurrency > 0 THEN infer_concurrency
  ELSE IF num_cpus < 8 THEN num_cpus ELSE 8

(***************************************************************************)
(* C32: the number of generations running inside infer_json never exceeds  *)
(* the permit count of the gateway (INFER_CONCURRENCY when positive,       *)
(* otherwise min(8, CPU count)), and the permits held are as many as the   *)
(* calls in progress: a call that left with an error gave its permit back. *)
(***************************************************************************)
C32_PermitsBoundGenerations ==
  gen_calls # <<>> =>
     /\ Cardinality(Generating) <= PermitCount
     /\ PermitCount - limiter = Cardinality(Generating)
     /\ limiter >= 0

\* all permits are held while a call waits, after a call ended with an error
C32_Witness ==
  /\ gen_calls # <<>>
  /\ Cardinality(Generating) = PermitCount
  /\ limiter = 0
  /\ \E c \in DOMAIN gen_calls : gen_calls[c].pc = "acquire"
  /\ \E c \in DOMAIN gen_calls : gen_calls[c].last = "err" /\ gen_calls[c].pc = "generate"

(***************************************************************************)
(* A /v1/words request whose gateway calls all return (no call panics),    *)
(* with the scheduling of the runtime: the handler and every spawned       *)
(* pipeline are tasks that run whenever they can, a pending infer_json     *)
(* call returns, and the timer of a retry delay elapses.                   *)
(***************************************************************************)
\* the gateway results of this specification: one that is retried, one that
\* succeeds, one that ends the pipeline with a failure at once
LiveResults == {"err", "valid", "missing"}

NextLive ==
  \/ \E n \in 0..MaxWords, c \in 1..MaxConcurrency : Receive(n, c)
  \/ Spawn
  \/ \E i \in set : JoinBackpressure(i)
  \/ \E i \in set : JoinDrain(i)
  \/ Respond
  \/ \E i \in DOMAIN tasks, g \in LiveResults : GatewayReturn(i, g)
  \/ \E i \in DOMAIN tasks : RetryWake(i)

LiveSpec ==
  /\ Init
  /\ [][NextLive]_vars
  /\ WF_vars(Spawn)
  /\ WF_vars(\E i \in set : JoinBackpressure(i))
  /\ WF_vars(\E i \in set : JoinDrain(i))
  /\ WF_vars(Respond)
  /\ \A i \in 1..MaxWords :
       /\ WF_vars(\E g \in LiveResults : GatewayReturn(i, g))
       /\ WF_vars(RetryWake(i))

\* the response was sent with every word dispatched and every pipeline
\* returned and drained
AllDrained ==
  /\ hpc = "responded"
  /\ status = 200
  /\ set = {}
  /\ Len(out) = N
  /\ \A i \in 1..N : tasks[i].pc = "done"

(***************************************************************************)
(* C33: when every gateway call returns, a batch request that was received *)
(* eventually sends its response, for every concurrency limit and number   *)
(* of words: every word has then been dispatched and every pipeline has    *)
(* reached Success or Failed and has been drained.                         *)
(***************************************************************************)
C33_BatchResponds == (hpc # "idle") ~> AllDrained

\* a batch of the most words was answered under the limit 1 after a pipeline
\* used all its attempts
C33_Witness ==
  /\ AllDrained
  /\ N = MaxWords
  /\ concurrency_limit = 1
  /\ \E i \in 1..N : tasks[i].attempt = MAX_RETRIES /\ ~tasks[i].outcome.ok

\* the kinds of failure a pipeline may end with
PipelineKinds == {"Inference", "JsonParse", "Validation"}

C35_Idempotent ==
  (validated # None /\ validated.ok) =>
     validate_and_fix(validated.v, req_word) = Ok(validated.v)

\* an entry that differs from the input in its phonetic, difficulty,
\* language and synonyms
C35_Witness ==
  /\ validated # None
  /\ validated.ok
  /\ json_value.o["phonetic"] = Str("w3:d/")
  /\ json_value.o["difficulty"] = Str("expert")
  /\ json_value.o["language"] = Str("spanish")
  /\ validated.v.o["phonetic"] = Str("/w3:d/")
  /\ validated.v.o["difficulty"] = Str("intermediate")
  /\ validated.v.o["language"] = Str("english")
  /\ validated.v.o["meanings"].a[1].o["synonyms"] = Arr(<<Str("a")>>)

====
